---- MODULE Spec2Model ----
(***************************************************************************)
(* Exhibition robot simulator: the Robot of robot.js (servo, ultrasonic    *)
(* sensor) driven by one of the firmware variants the repository holds:    *)
(*   "territory"  firmware.js 1-669      (patrol / acquire / shove)        *)
(*   "ring"       firmware.js 671-1066   (ring-buffer threat classifier)   *)
(*   "probing"    firmware.js 1068-1598  (probing threat classifier)       *)
(*   "basic"      unnamed/part_001       (no classifier)                   *)
(*                                                                         *)
(* Units: time 1/600 s (so 1/15 s = 40, 25 ms = 15), distance cm, angle    *)
(* degrees, wheel command 1/10000 of full scale.  The servo turns 600      *)
(* deg/s, that is one degree per time unit.  Infinity is INF.              *)
(***************************************************************************)
EXTENDS Integers, Sequences, FiniteSets, TLC

VARIABLES
  firmware,    \* which firmware variant is loaded (fixed for a run)
  dt,          \* frame time of the run
  world,       \* what is in front of the robot
  ticks,       \* number of Robot.update calls so far
  events,      \* world changes and line detections so far
  rng,         \* position of Math.random's generator
  robot,       \* fields of Robot
  fw,          \* robot._fw without its scan
  scan,        \* robot._fw.scan
  threat,      \* robot._threat
  servo,       \* robot.servo
  ultrasonic,  \* robot.ultrasonic
  obs          \* what the last tick did (history, read by the properties)

vars == <<firmware, dt, world, ticks, events, rng, robot, fw, scan, threat,
          servo, ultrasonic, obs>>

----------------------------------------------------------------------------
(* Bounds of the model *)

MaxTicksThreat == 140
MaxEvents == 1

DTsThreat == {40, 150, 600, 37800}
WorldsThreat == {"empty", "wall", "pacing", "edge"}
MaxTicksTerritory == 250
MaxScanTime == 6000
DTsTerritory == {23, 60}
WorldsTerritory == {"empty", "wall", "legs", "near"}
RandSeq == <<0, 500>>

----------------------------------------------------------------------------
(* Numbers *)

INF == 1000000000

IsFinite(x) == x < INF
AddT(x, d) == IF x >= INF THEN INF ELSE x + d
Min2(a, b) == IF a <= b THEN a ELSE b
Max2(a, b) == IF a >= b THEN a ELSE b
Abs(x) == IF x < 0 THEN -x ELSE x
clamp(v, lo, hi) == IF v < lo THEN lo ELSE IF v > hi THEN hi ELSE v

(* Math.random(): the generator steps through RandSeq (thousandths). *)
RandVal(m) == RandSeq[m.rng]
RandStep(m) == [m EXCEPT !.rng = (m.rng % Len(RandSeq)) + 1]
\* randBetween(a, b) = a + Math.random() * (b - a)
randBetween(m, a, b) == a + (RandVal(m) * (b - a)) \div 1000

----------------------------------------------------------------------------
(* config.js *)

ULTRASONIC_RANGE == 300
ULTRASONIC_NOISE == 2
ULTRASONIC_INTERVAL == 40
ULTRASONIC_PING_MIN_DT == 15
SERVO_LIMIT_DEG == 60
SERVO_SETTLE_S == 24
WAKE_DIST_FROM_BOUNDARY == 150
AGGRESSION_DURATION == 18000
GUARD_DURATION == 18000
CALM_WAIT == 36000
SAFE_CYCLE_PERIOD == 108000
INTER_CLUTCH_DELAY == 1800
CLUTCH_COUNT == 3
EGGS_PER_CLUTCH == 10

----------------------------------------------------------------------------
(* The world as the ultrasonic beam sees it: the nearest hit (cm) with the *)
(* beam at servo angle a, on the ping numbered seq.  This stands for the   *)
(* ray casts of UltrasonicSensor.ping against the legs and the obstacles;  *)
(* the noise term is taken at its mean, 0.                                 *)
NearestHit(w, a, seq) ==
  CASE w = "empty"  -> INF
    [] w = "wall"   -> 90
    [] w = "legs"   -> IF Abs(a) <= 12 THEN 60 ELSE INF
    [] w = "near"   -> IF Abs(a) <= 12 THEN 30 ELSE INF
    [] w = "pacing" -> IF seq % 2 = 0 THEN 100 ELSE 140
    [] w = "edge"   -> IF seq % 2 = 1 THEN INF ELSE IF seq % 4 = 0 THEN 100 ELSE 140
    [] OTHER        -> INF

----------------------------------------------------------------------------
(* robot.js: Servo *)

ServoSetTargetDeg(m, deg) ==
  [m EXCEPT !.servo.target = clamp(deg, -SERVO_LIMIT_DEG, SERVO_LIMIT_DEG)]

ServoUpdate(m, d) ==
  LET diff == m.servo.target - m.servo.angle
      step == clamp(diff, -d, d)
  IN  [m EXCEPT !.servo.angle = m.servo.angle + step,
                !.servo.timeSinceMove =
                   IF step # 0 THEN 0 ELSE AddT(m.servo.timeSinceMove, d)]

(* robot.js: UltrasonicSensor *)

\* ping() with the minimum cycle time not enforced
PingAcceptedNoGate(m) ==
  /\ m.us.hasEnv
  /\ ~(m.servo.timeSinceMove < SERVO_SETTLE_S)

PingAccepted(m) ==
  /\ ~(m.us.sincePing < ULTRASONIC_PING_MIN_DT)
  /\ m.us.hasEnv
  /\ ~(m.servo.timeSinceMove < SERVO_SETTLE_S)

\* ping() where the ray casts find the nearest hit best (INF: none) and the
\* noise drawn is noise, in cm: (Math.random() * 2 - 1) * ULTRASONIC_NOISE.
SensorPingWith(m, best, noise) ==
  IF ~PingAccepted(m) THEN m
  ELSE [m EXCEPT !.us.sincePing = 0,
                 !.us.lastVal = IF best <= ULTRASONIC_RANGE
                                THEN Max2(0, best + noise) ELSE INF,
                 !.us.seq = m.us.seq + 1]

\* In the scenes of NearestHit the noise is taken at its mean, 0.
SensorPing(m) ==
  SensorPingWith(m, NearestHit(m.world, m.servo.angle, m.us.seq), 0)

SensorUpdateWith(m, d, best, noise) ==
  LET m1 == [m EXCEPT !.us.hasEnv = TRUE,
                      !.us.sincePing = AddT(m.us.sincePing, d),
                      !.us.timer = m.us.timer + d]
  IN  IF m1.us.timer >= ULTRASONIC_INTERVAL
      THEN SensorPingWith([m1 EXCEPT !.us.timer = m1.us.timer - ULTRASONIC_INTERVAL],
                          best, noise)
      ELSE m1

SensorUpdate(m, d) ==
  SensorUpdateWith(m, d, NearestHit(m.world, m.servo.angle, m.us.seq), 0)

----------------------------------------------------------------------------
(* Helpers shared by the threat firmwares ("basic", "ring", "probing").    *)
(* Eggs and particles are counted, not placed: nClutches is                *)
(* robot.clutches.length.  The draws of Math.random that only place eggs   *)
(* and particles are not drawn from RandSeq.                               *)

\* Number.isFinite(dist) && dist < THREAT_CFG.NEAR_DIST
NearDist(dist) == IsFinite(dist) /\ dist < WAKE_DIST_FROM_BOUNDARY

startNextClutch(m) ==
  [m EXCEPT !.robot.nClutches = m.robot.nClutches + 1,
            !.robot.activeClutchIdx = m.robot.nClutches,
            !.robot.layingEggsLeft = EGGS_PER_CLUTCH,
            !.robot.layingEggTimer = 0]

layPostCalmClutch(m) ==
  LET m1 == [m EXCEPT !.h.layCalls = m.h.layCalls + 1]
  IN  IF m1.robot.activeClutchIdx < 0 THEN m1
      ELSE [m1 EXCEPT !.robot.nClutches = m1.robot.nClutches + 1,
                      !.robot.activeClutchIdx = m1.robot.nClutches]

enterRing(m, newState) ==
  LET m0 == [m EXCEPT !.robot.state = newState, !.robot.stateTimer = 0]
      m1 == IF newState = "AGGRESSION"
            THEN [m0 EXCEPT !.robot.lungePhase = "null",
                            !.robot.lungeTimer = 0,
                            !.robot.lungeDriveTime = 0]
            ELSE m0
      m2 == IF newState = "GUARD" THEN [m1 EXCEPT !.robot.jitterTimer = 0] ELSE m1
      m3 == IF newState = "LAYING"
            THEN startNextClutch([m2 EXCEPT !.robot.layingStep = 0,
                                            !.robot.layingSubTimer = 0,
                                            !.robot.layingEggTimer = 0,
                                            !.robot.layingEggsLeft = EGGS_PER_CLUTCH,
                                            !.robot.isBuzzing = TRUE])
            ELSE m2
      m4 == IF newState = "CALMING"
            THEN [m3 EXCEPT !.robot.calmTimer = 0, !.robot.didPostCalmLay = FALSE]
            ELSE m3
      m5 == IF newState = "IDLE_SAFE" THEN [m4 EXCEPT !.robot.isBuzzing = FALSE] ELSE m4
  IN  IF newState = "SLEEP"
      THEN [m5 EXCEPT !.robot.isBuzzing = FALSE,
                      !.robot.pwmLeft = 0, !.robot.pwmRight = 0]
      ELSE m5

----------------------------------------------------------------------------
(* firmware.js 671-1066: ring-buffer threat firmware.                      *)
(* Its wheel commands (a sine overlay added by _ensureConstantMotion) do   *)
(* not feed back into the state machine and are not modelled; pwmLeft and  *)
(* pwmRight keep the values enter() gives them.                            *)

COOLDOWN_DUR_RING == 900
RING_N_RING == 14
SAMPLE_DT == 40
LEGS_DROPOUT_PCT == 30
LEGS_SPREAD == 25
RING_MIN_SAMPLES == 4
EGG_INTERVAL == 108
LOST_TIMEOUT == 1800
RETREAT_TIME == 1200
CALM_EXTRA == 1200

\* threat.ring is a 0-based array; ring[j + 1] here is ring[j] there.
pushSample(th, dist) ==
  [th EXCEPT !.ring = [th.ring EXCEPT ![th.ringIdx + 1] = dist],
             !.ringIdx = (th.ringIdx + 1) % RING_N_RING,
             !.ringCount = Min2(RING_N_RING, th.ringCount + 1)]

\* The i-th value of the scan window, i in 0 .. n-1.
scanWindowAt(th, i) ==
  th.ring[((th.ringIdx - th.ringCount + i + RING_N_RING) % RING_N_RING) + 1]

\* _scanStats deciding on any non-empty window
scanStatsNoMinimum(th) ==
  LET n == th.ringCount
      idxFin == {i \in 0 .. (n - 1) : IsFinite(scanWindowAt(th, i))}
      fin == {scanWindowAt(th, i) : i \in idxFin}
      finN == Cardinality(idxFin)
      minD == CHOOSE v \in fin : \A u \in fin : v <= u
      maxD == CHOOSE v \in fin : \A u \in fin : v >= u
  IN  IF n < 1 THEN [valid |-> FALSE, n |-> n, infN |-> 0, spread |-> 0]
      ELSE [valid |-> TRUE, n |-> n, infN |-> n - finN,
            spread |-> IF finN >= 2 THEN maxD - minD ELSE 0]

scanStats(th) ==
  LET n == th.ringCount
      W == {scanWindowAt(th, i) : i \in 0 .. (n - 1)}
      idxFin == {i \in 0 .. (n - 1) : IsFinite(scanWindowAt(th, i))}
      fin == {scanWindowAt(th, i) : i \in idxFin}
      finN == Cardinality(idxFin)
      minD == CHOOSE v \in fin : \A u \in fin : v <= u
      maxD == CHOOSE v \in fin : \A u \in fin : v >= u
  IN  IF n < RING_MIN_SAMPLES THEN [valid |-> FALSE, n |-> n, infN |-> 0, spread |-> 0]
      ELSE [valid |-> TRUE, n |-> n, infN |-> n - finN,
            spread |-> IF finN >= 2 THEN maxD - minD ELSE 0]

\* CountDown without the floor at 0
CountDownNoFloor(x, d) == IF x > 0 THEN x - d ELSE x

\* firmware.js 758: if (x > 0) x = Math.max(0, x - dt)
CountDown(x, d) == IF x > 0 THEN Max2(0, x - d) ELSE x

\* Returns the robot and the decision {threat, enterAggression}.
updateThreatClassifierRing(m, d) ==
  LET th0 == m.threat
      th1 == [th0 EXCEPT !.cooldown = CountDown(th0.cooldown, d)]
      dist == m.us.lastVal
      near == NearDist(dist)
      th2 == [th1 EXCEPT !.sampleTimer = th1.sampleTimer + d]
      th3 == IF th2.sampleTimer >= SAMPLE_DT
             THEN LET t == [th2 EXCEPT !.sampleTimer = th2.sampleTimer - SAMPLE_DT]
                  IN  IF near THEN pushSample(t, dist)
                      ELSE [t EXCEPT !.ringCount = 0, !.ringIdx = 0]
             ELSE th2
      push == th2.sampleTimer >= SAMPLE_DT /\ near
      m3 == [m EXCEPT !.threat = th3, !.h.near = near, !.h.cooldownSeen = th3.cooldown,
                      !.h.pushed = push,
                      !.h.windowN = th3.ringCount,
                      !.h.pushGap = IF push /\ m.h.sincePush >= 0
                                    THEN Min2(m.h.sincePush + d, SAMPLE_DT) ELSE -1,
                      !.h.sincePush = IF push THEN 0
                                      ELSE IF @ < 0 THEN @
                                      ELSE Min2(@ + d, SAMPLE_DT)]
      stats == scanStats(th3)
      no == [threat |-> FALSE, enterAggression |-> FALSE]
  IN  IF m.robot.state = "AGGRESSION"
      THEN [m |-> [m3 EXCEPT !.robot.percept = "legs"],
            dec |-> [threat |-> TRUE, enterAggression |-> FALSE]]
      ELSE IF ~near
      THEN [m |-> [m3 EXCEPT !.robot.percept = "empty"], dec |-> no]
      ELSE IF th3.cooldown > 0
      THEN [m |-> [m3 EXCEPT !.robot.percept = "wall"], dec |-> no]
      ELSE IF ~stats.valid
      THEN [m |-> [m3 EXCEPT !.robot.percept = "scanning"], dec |-> no]
      ELSE IF stats.infN * 100 >= LEGS_DROPOUT_PCT * stats.n \/ stats.spread >= LEGS_SPREAD
      THEN [m |-> [m3 EXCEPT !.robot.percept = "legs", !.threat.ringCount = 0,
                             !.h.verdict = "legs"],
            dec |-> [threat |-> TRUE, enterAggression |-> TRUE]]
      ELSE [m |-> [m3 EXCEPT !.robot.percept = "wall",
                             !.threat.cooldown = COOLDOWN_DUR_RING,
                             !.threat.ringCount = 0,
                             !.h.verdict = "wall"],
            dec |-> no]

\* case STATE.IDLE_SAFE
RingIdleSafe(m, d) ==
  LET m1 == [m EXCEPT !.robot.safeTimer = m.robot.safeTimer + d]
  IN  IF m1.robot.safeTimer >= SAFE_CYCLE_PERIOD
      THEN enterRing([m1 EXCEPT !.robot.safeTimer = 0,
                                !.robot.clutchesThisCycle = 0], "LAYING")
      ELSE m1

\* case STATE.LAYING
RingLaying(m, d) ==
  LET m1 == [m EXCEPT !.robot.layingEggTimer = m.robot.layingEggTimer + d]
      m2 == IF m1.robot.layingEggsLeft > 0 /\ m1.robot.layingEggTimer >= EGG_INTERVAL
            THEN [m1 EXCEPT !.robot.layingEggTimer = m1.robot.layingEggTimer - EGG_INTERVAL,
                            !.robot.layingEggsLeft = m1.robot.layingEggsLeft - 1]
            ELSE m1
      m3 == [m2 EXCEPT !.robot.layingSubTimer = m2.robot.layingSubTimer + d]
      m4 == [m3 EXCEPT !.robot.layingSubTimer = 0,
                       !.robot.layingStep = m3.robot.layingStep + 1]
  IN  IF m2.robot.layingEggsLeft > 0 THEN m2
      ELSE IF m3.robot.layingSubTimer < INTER_CLUTCH_DELAY THEN m3
      ELSE IF m4.robot.layingStep < CLUTCH_COUNT
      THEN startNextClutch([m4 EXCEPT !.robot.clutchesThisCycle =
                                         m4.robot.clutchesThisCycle + 1])
      ELSE enterRing([m4 EXCEPT !.robot.isBuzzing = FALSE], "SLEEP")

\* case STATE.AGGRESSION
RingAggression(m, d, legsPresent) ==
  LET start == m.robot.lungePhase = "null" \/ m.robot.lungePhase = "done"
      t0 == randBetween(m, 300, 600)
      m1 == IF start
            THEN RandStep([m EXCEPT !.robot.lungePhase = "drive",
                                    !.robot.lungeTimer = t0,
                                    !.robot.lungeDriveTime = t0])
            ELSE m
      t1 == m1.robot.lungeTimer - d
  IN  IF m.robot.stateTimer >= AGGRESSION_DURATION THEN enterRing(m, "RETREATING")
      ELSE IF ~legsPresent
      THEN IF m.robot.stateTimer > LOST_TIMEOUT THEN enterRing(m, "RETREATING") ELSE m
      ELSE IF m1.robot.lungePhase = "drive"
      THEN IF t1 <= 0
           THEN [m1 EXCEPT !.robot.lungePhase = "back",
                           !.robot.lungeTimer = m1.robot.lungeDriveTime]
           ELSE [m1 EXCEPT !.robot.lungeTimer = t1]
      ELSE IF m1.robot.lungePhase = "back"
      THEN IF t1 <= 0
           THEN [m1 EXCEPT !.robot.lungeTimer = t1, !.robot.lungePhase = "done"]
           ELSE [m1 EXCEPT !.robot.lungeTimer = t1]
      ELSE m1

\* case STATE.RETREATING
RingRetreating(m) ==
  IF m.robot.stateTimer > RETREAT_TIME THEN enterRing(m, "GUARD") ELSE m

\* case STATE.GUARD
RingGuard(m, d, legsPresent) ==
  LET j == m.robot.jitterTimer - d
  IN  IF legsPresent THEN enterRing(m, "AGGRESSION")
      ELSE IF m.robot.stateTimer >= GUARD_DURATION THEN enterRing(m, "CALMING")
      ELSE IF j <= 0
      THEN RandStep([m EXCEPT !.robot.jitterTimer = randBetween(m, 300, 900)])
      ELSE [m EXCEPT !.robot.jitterTimer = j]

\* RingCalming without the didPostCalmLay latch
RingCalmingNoLatch(m, d, legsPresent) ==
  LET m1 == [m EXCEPT !.robot.calmTimer = m.robot.calmTimer + d]
      m2 == IF m1.robot.calmTimer >= CALM_WAIT
            THEN layPostCalmClutch(m1)
            ELSE m1
  IN  IF legsPresent THEN enterRing(m, "AGGRESSION")
      ELSE IF m2.robot.calmTimer >= CALM_WAIT + CALM_EXTRA
      THEN enterRing([m2 EXCEPT !.robot.safeTimer = 0], "IDLE_SAFE")
      ELSE m2

\* case STATE.CALMING
RingCalming(m, d, legsPresent) ==
  LET m1 == [m EXCEPT !.robot.calmTimer = m.robot.calmTimer + d]
      m2 == IF m1.robot.calmTimer >= CALM_WAIT /\ ~m1.robot.didPostCalmLay
            THEN layPostCalmClutch([m1 EXCEPT !.robot.didPostCalmLay = TRUE])
            ELSE m1
  IN  IF legsPresent THEN enterRing(m, "AGGRESSION")
      ELSE IF m2.robot.calmTimer >= CALM_WAIT + CALM_EXTRA
      THEN enterRing([m2 EXCEPT !.robot.safeTimer = 0], "IDLE_SAFE")
      ELSE m2

updateBehaviorRing(m, d) ==
  LET Switch(m3, legsPresent) ==
        CASE m3.robot.state = "SLEEP" ->
               [m3 EXCEPT !.robot.pwmLeft = 0, !.robot.pwmRight = 0]
          [] m3.robot.state = "IDLE_SAFE"  -> RingIdleSafe(m3, d)
          [] m3.robot.state = "LAYING"     -> RingLaying(m3, d)
          [] m3.robot.state = "AGGRESSION" -> RingAggression(m3, d, legsPresent)
          [] m3.robot.state = "RETREATING" -> RingRetreating(m3)
          [] m3.robot.state = "GUARD"      -> RingGuard(m3, d, legsPresent)
          [] m3.robot.state = "CALMING"    -> RingCalming(m3, d, legsPresent)
          [] OTHER                         -> m3
      React(m2, enterAggression) ==
        IF enterAggression /\ m2.robot.state # "AGGRESSION"
        THEN enterRing(m2, "AGGRESSION") ELSE m2
      Behave(m3) == Switch(m3, NearDist(m3.us.lastVal))
      Classified(c) ==
        Behave(React([c.m EXCEPT !.h.enterAggr = c.dec.enterAggression],
                     c.dec.enterAggression))
  IN  Classified(updateThreatClassifierRing(
                   [m EXCEPT !.robot.stateTimer = m.robot.stateTimer + d], d))

----------------------------------------------------------------------------
(* unnamed/part_001: the basic firmware (no classifier).  The robot's pose *)
(* is not modelled: whether a gotoPoint / distTo test finds the robot at   *)
(* its target is the input m.fw.arrives, fixed for a run.  lungeTarget and *)
(* jitterTarget are kept as "is set" flags.                                *)

RETREAT_TIMEOUT == 9000
JITTER_PERIOD == 480

enterBasic(m, newState) ==
  LET m0 == [m EXCEPT !.robot.state = newState, !.robot.stateTimer = 0]
      m1 == IF newState = "AGGRESSION"
            THEN [m0 EXCEPT !.robot.hasLungeTarget = FALSE,
                            !.robot.lungePhase = "drive"]
            ELSE m0
      m2 == IF newState = "GUARD"
            THEN [m1 EXCEPT !.robot.jitterTimer = 0, !.robot.hasJitterTarget = FALSE]
            ELSE m1
      m3 == IF newState = "LAYING"
            THEN startNextClutch([m2 EXCEPT !.robot.layingStep = 0,
                                            !.robot.layingSubTimer = 0,
                                            !.robot.layingEggTimer = 0,
                                            !.robot.layingEggsLeft = EGGS_PER_CLUTCH,
                                            !.robot.isBuzzing = TRUE])
            ELSE m2
      m4 == IF newState = "CALMING"
            THEN [m3 EXCEPT !.robot.calmTimer = 0, !.robot.didPostCalmLay = FALSE]
            ELSE m3
      m5 == IF newState = "IDLE_SAFE" THEN [m4 EXCEPT !.robot.isBuzzing = FALSE] ELSE m4
  IN  IF newState = "SLEEP"
      THEN [m5 EXCEPT !.robot.isBuzzing = FALSE,
                      !.robot.pwmLeft = 0, !.robot.pwmRight = 0]
      ELSE m5

\* case STATE.IDLE_SAFE
BasicIdleSafe(m, d, legsPresent) ==
  LET m1 == [m EXCEPT !.robot.safeTimer = m.robot.safeTimer + d]
  IN  IF legsPresent THEN enterBasic(m, "AGGRESSION")
      ELSE IF m1.robot.safeTimer >= SAFE_CYCLE_PERIOD
      THEN enterBasic([m1 EXCEPT !.robot.safeTimer = 0,
                                 !.robot.clutchesThisCycle = 0], "LAYING")
      ELSE m1

\* case STATE.LAYING
BasicLaying(m, d, legsPresent) ==
  LET m1 == [m EXCEPT !.robot.layingEggTimer = m.robot.layingEggTimer + d]
      m2 == IF m1.robot.layingEggsLeft > 0 /\ m1.robot.layingEggTimer >= EGG_INTERVAL
            THEN [m1 EXCEPT !.robot.layingEggTimer = m1.robot.layingEggTimer - EGG_INTERVAL,
                            !.robot.layingEggsLeft = m1.robot.layingEggsLeft - 1]
            ELSE m1
      m3 == [m2 EXCEPT !.robot.layingSubTimer = m2.robot.layingSubTimer + d,
                       !.robot.pwmLeft = 0, !.robot.pwmRight = 0]
      m4 == [m3 EXCEPT !.robot.layingSubTimer = 0,
                       !.robot.layingStep = m3.robot.layingStep + 1]
  IN  IF legsPresent
      THEN enterBasic([m EXCEPT !.robot.isBuzzing = FALSE], "AGGRESSION")
      ELSE IF m2.robot.layingEggsLeft > 0 THEN m2
      ELSE IF m3.robot.layingSubTimer < INTER_CLUTCH_DELAY THEN m3
      ELSE IF m4.robot.layingStep < CLUTCH_COUNT
      THEN startNextClutch([m4 EXCEPT !.robot.clutchesThisCycle =
                                         m4.robot.clutchesThisCycle + 1])
      ELSE enterBasic([m4 EXCEPT !.robot.isBuzzing = FALSE], "SLEEP")

\* case STATE.AGGRESSION
BasicAggression(m, d, legsPresent) ==
  LET m1 == IF ~m.robot.hasLungeTarget \/ m.robot.lungePhase = "done"
            THEN [m EXCEPT !.robot.hasLungeTarget = TRUE, !.robot.lungePhase = "drive"]
            ELSE m
  IN  IF m.robot.stateTimer >= AGGRESSION_DURATION THEN enterBasic(m, "RETREATING")
      ELSE IF ~legsPresent /\ m.robot.stateTimer > LOST_TIMEOUT
      THEN enterBasic(m, "RETREATING")
      ELSE IF m1.robot.lungePhase = "drive"
      THEN IF m1.fw.arrives THEN [m1 EXCEPT !.robot.lungePhase = "back"] ELSE m1
      ELSE IF m1.robot.lungePhase = "back"
      THEN IF m1.fw.arrives
           THEN [m1 EXCEPT !.robot.lungePhase = "done", !.robot.hasLungeTarget = FALSE]
           ELSE m1
      ELSE m1

\* case STATE.RETREATING
BasicRetreating(m) ==
  LET m1 == IF m.fw.arrives THEN enterBasic(m, "GUARD") ELSE m
  IN  IF m1.robot.stateTimer > RETREAT_TIMEOUT THEN enterBasic(m1, "GUARD") ELSE m1

\* case STATE.GUARD
BasicGuard(m, d, legsPresent) ==
  LET m1 == [m EXCEPT !.robot.jitterTimer = m.robot.jitterTimer + d]
  IN  IF legsPresent THEN enterBasic(m, "AGGRESSION")
      ELSE IF m.robot.stateTimer >= GUARD_DURATION
      THEN enterBasic(m, IF legsPresent THEN "AGGRESSION" ELSE "CALMING")
      ELSE IF ~m1.robot.hasJitterTarget \/ m1.robot.jitterTimer > JITTER_PERIOD
      THEN [m1 EXCEPT !.robot.jitterTimer = 0, !.robot.hasJitterTarget = TRUE]
      ELSE m1

\* case STATE.CALMING
BasicCalming(m, d, legsPresent) ==
  LET m1 == [m EXCEPT !.robot.calmTimer = m.robot.calmTimer + d,
                      !.robot.pwmLeft = 0, !.robot.pwmRight = 0]
      m2 == IF m1.robot.calmTimer >= CALM_WAIT /\ ~m1.robot.didPostCalmLay
            THEN layPostCalmClutch([m1 EXCEPT !.robot.didPostCalmLay = TRUE])
            ELSE m1
  IN  IF legsPresent THEN enterBasic(m, "AGGRESSION")
      ELSE IF m2.robot.calmTimer >= CALM_WAIT + CALM_EXTRA
      THEN enterBasic([m2 EXCEPT !.robot.safeTimer = 0], "IDLE_SAFE")
      ELSE m2

\* updateBehavior without the gate ahead of the switch (part_001 161-163)
updateBehaviorBasicNoGate(m, d) ==
  LET m1 == [m EXCEPT !.robot.stateTimer = m.robot.stateTimer + d]
      legsPresent == m1.us.lastVal < WAKE_DIST_FROM_BOUNDARY
      m3 == [m1 EXCEPT !.h.near = legsPresent]
      st == m3.robot.state
  IN  CASE st = "SLEEP"      -> [m3 EXCEPT !.robot.pwmLeft = 0, !.robot.pwmRight = 0]
        [] st = "IDLE_SAFE"  -> BasicIdleSafe(m3, d, legsPresent)
        [] st = "LAYING"     -> BasicLaying(m3, d, legsPresent)
        [] st = "AGGRESSION" -> BasicAggression(m3, d, legsPresent)
        [] st = "RETREATING" -> BasicRetreating(m3)
        [] st = "GUARD"      -> BasicGuard(m3, d, legsPresent)
        [] st = "CALMING"    -> BasicCalming(m3, d, legsPresent)
        [] OTHER             -> m3

updateBehaviorBasic(m, d) ==
  LET m1 == [m EXCEPT !.robot.stateTimer = m.robot.stateTimer + d]
      legsPresent == m1.us.lastVal < WAKE_DIST_FROM_BOUNDARY
      m2 == IF legsPresent /\ m1.robot.state # "AGGRESSION"
            THEN enterBasic(m1, "AGGRESSION") ELSE m1
      m3 == [m2 EXCEPT !.h.near = legsPresent]
      st == m3.robot.state
  IN  CASE st = "SLEEP"      -> [m3 EXCEPT !.robot.pwmLeft = 0, !.robot.pwmRight = 0]
        [] st = "IDLE_SAFE"  -> BasicIdleSafe(m3, d, legsPresent)
        [] st = "LAYING"     -> BasicLaying(m3, d, legsPresent)
        [] st = "AGGRESSION" -> BasicAggression(m3, d, legsPresent)
        [] st = "RETREATING" -> BasicRetreating(m3)
        [] st = "GUARD"      -> BasicGuard(m3, d, legsPresent)
        [] st = "CALMING"    -> BasicCalming(m3, d, legsPresent)
        [] OTHER             -> m3

----------------------------------------------------------------------------
(* firmware.js 1068-1598: probing threat firmware.  Wheel commands feed    *)
(* the classifier's nearlyStationary test, so pwmLeft / pwmRight are kept  *)
(* (1/10000 of full scale).  probeLastFinite = null is NullDist.           *)

RING_N_PROBE == 8
DT_SAMPLE_MAX == 150
PROBE_DUR == 510
PROBE_TOGGLE == 108
PROBE_PWM == 2200
COOLDOWN_DUR_PROBE == 1200
WALL_AVOID_DUR == 540
MOVING_ABS_DERIV == 7
PROBE_DROPOUT_PCT == 20
PROBE_SPREAD == 14
SUSPECT_DUR == 210
STATIONARY_PWM == 1800
NullDist == -1

pushThreatSample(th, dist) ==
  [th EXCEPT !.ring = [th.ring EXCEPT ![th.ringIdx + 1] = dist],
             !.ringIdx = (th.ringIdx + 1) % RING_N_PROBE,
             !.ringCount = Min2(RING_N_PROBE, th.ringCount + 1)]

\* The loop of _ringStats over ring[i .. n-1], in array order.
RECURSIVE ringStatsLoop(_, _, _, _)
ringStatsLoop(ring, i, n, acc) ==
  IF i >= n THEN acc
  ELSE LET v == ring[i + 1]
       IN  IF ~IsFinite(v)
           THEN ringStatsLoop(ring, i + 1, n, [acc EXCEPT !.infN = acc.infN + 1])
           ELSE ringStatsLoop(ring, i + 1, n,
                  [acc EXCEPT !.finiteN = acc.finiteN + 1,
                              !.sum = acc.sum + v,
                              !.min = Min2(acc.min, v),
                              !.max = Max2(acc.max, v),
                              !.absDerivSum =
                                 IF acc.lastFinite # NullDist
                                 THEN acc.absDerivSum + Abs(v - acc.lastFinite)
                                 ELSE acc.absDerivSum,
                              !.lastFinite = v])

\* valid = FALSE is the null result.  absDerivMean >= x is
\* absDerivSum >= x * (finiteN - 1) when finiteN >= 2.
ringStats(th) ==
  LET n == th.ringCount
      a == ringStatsLoop(th.ring, 0, n,
             [finiteN |-> 0, infN |-> 0, min |-> INF, max |-> 0, sum |-> 0,
              lastFinite |-> NullDist, absDerivSum |-> 0])
  IN  [valid |-> n > 0, n |-> n, finiteN |-> a.finiteN, infN |-> a.infN,
       min |-> a.min, max |-> a.max, absDerivSum |-> a.absDerivSum,
       spread |-> IF a.finiteN > 0 THEN a.max - a.min ELSE 0]

\* stats.finiteN >= 3 && stats.absDerivMean >= MOVING_ABS_DERIV
MovingSignature(stats) ==
  /\ stats.valid
  /\ stats.finiteN >= 3
  /\ stats.absDerivSum >= MOVING_ABS_DERIV * (stats.finiteN - 1)

ProbeReset(th) ==
  [th EXCEPT !.probeTimer = 0, !.probeToggleTimer = 0, !.probeSampleTimer = 0,
             !.probeDir = 1, !.probeSamples = 0, !.probeInf = 0,
             !.probeMin = INF, !.probeMax = 0, !.probeLastFinite = NullDist,
             !.probeAbsDerivSum = 0]

Decision(t, o, e) == [threat |-> t, override |-> o, enterAggression |-> e]

\* ClassifierSuspect deciding on the buffered history alone
ClassifierSuspectAnyReading(m, near) ==
  LET m1 == [m EXCEPT !.robot.pwmLeft = 0, !.robot.pwmRight = 0]
  IN  IF MovingSignature(ringStats(m1.threat))
      THEN [m |-> [m1 EXCEPT !.threat.suspect = 0], dec |-> Decision(TRUE, FALSE, TRUE)]
      ELSE [m |-> IF m1.threat.suspect <= 0
                  THEN [m1 EXCEPT !.threat.cooldown = COOLDOWN_DUR_PROBE] ELSE m1,
            dec |-> Decision(FALSE, TRUE, FALSE)]

\* firmware.js 1232-1248: the suspect window
ClassifierSuspect(m, near) ==
  LET m1 == [m EXCEPT !.robot.pwmLeft = 0, !.robot.pwmRight = 0]
  IN  IF near /\ MovingSignature(ringStats(m1.threat))
      THEN [m |-> [m1 EXCEPT !.threat.suspect = 0], dec |-> Decision(TRUE, FALSE, TRUE)]
      ELSE [m |-> IF m1.threat.suspect <= 0
                  THEN [m1 EXCEPT !.threat.cooldown = COOLDOWN_DUR_PROBE] ELSE m1,
            dec |-> Decision(FALSE, TRUE, FALSE)]

\* firmware.js 1250-1321: the probing phase
ClassifierProbing(m, d, dist) ==
  LET dtSample == Min2(d, DT_SAMPLE_MAX)
      t0 == m.threat
      Verdict(m1, t4, t5, legsScore) ==
        IF t4.probeTimer < PROBE_DUR
        THEN [m |-> m1, dec |-> Decision(FALSE, TRUE, FALSE)]
        ELSE IF legsScore >= 1
        THEN [m |-> [m1 EXCEPT !.threat = [t5 EXCEPT !.suspect = SUSPECT_DUR],
                               !.h.verdict = "suspect"],
              dec |-> Decision(FALSE, TRUE, FALSE)]
        ELSE [m |-> [m1 EXCEPT !.threat = [t5 EXCEPT !.cooldown = COOLDOWN_DUR_PROBE,
                                                     !.wallAvoid = WALL_AVOID_DUR],
                               !.h.verdict = "wall"],
              dec |-> Decision(FALSE, TRUE, FALSE)]
      Score(t4, n, spread) ==
        Verdict([m EXCEPT !.threat = t4,
                          !.robot.pwmLeft = -(PROBE_PWM * t4.probeDir),
                          !.robot.pwmRight = PROBE_PWM * t4.probeDir],
                t4,
                ProbeReset([t4 EXCEPT !.phase = "idle"]),
                (IF t4.probeInf * 100 >= PROBE_DROPOUT_PCT * n THEN 1 ELSE 0)
                  + (IF spread >= PROBE_SPREAD THEN 1 ELSE 0))
      Sampled(t4) ==
        Score(t4, Max2(1, t4.probeSamples),
              IF IsFinite(t4.probeMin) /\ IsFinite(t4.probeMax)
              THEN t4.probeMax - t4.probeMin ELSE 0)
      Sample(t3) ==
        Sampled(IF t3.probeSampleTimer < SAMPLE_DT THEN t3
                ELSE IF IsFinite(dist)
                THEN [t3 EXCEPT !.probeSampleTimer = 0,
                                !.probeSamples = t3.probeSamples + 1,
                                !.probeMin = Min2(t3.probeMin, dist),
                                !.probeMax = Max2(t3.probeMax, dist),
                                !.probeAbsDerivSum =
                                   IF t3.probeLastFinite # NullDist
                                   THEN t3.probeAbsDerivSum
                                        + Abs(dist - t3.probeLastFinite)
                                   ELSE t3.probeAbsDerivSum,
                                !.probeLastFinite = dist]
                ELSE [t3 EXCEPT !.probeSampleTimer = 0,
                                !.probeSamples = t3.probeSamples + 1,
                                !.probeInf = t3.probeInf + 1])
      Toggle(t1) ==
        Sample([t1 EXCEPT
                  !.probeToggleTimer = IF t1.probeToggleTimer >= PROBE_TOGGLE
                                       THEN 0 ELSE t1.probeToggleTimer,
                  !.probeDir = IF t1.probeToggleTimer >= PROBE_TOGGLE
                               THEN -t1.probeDir ELSE t1.probeDir,
                  !.probeSampleTimer = t1.probeSampleTimer + dtSample])
  IN  Toggle([t0 EXCEPT !.probeTimer = t0.probeTimer + d,
                        !.probeToggleTimer = t0.probeToggleTimer + d])

\* firmware.js 1323-1359: not probing
ClassifierIdle(m, near) ==
  LET nearlyStationary == /\ Abs(m.robot.pwmLeft) < STATIONARY_PWM
                          /\ Abs(m.robot.pwmRight) < STATIONARY_PWM
  IN  IF ~near THEN [m |-> m, dec |-> Decision(FALSE, FALSE, FALSE)]
      ELSE IF m.threat.cooldown > 0 THEN [m |-> m, dec |-> Decision(FALSE, FALSE, FALSE)]
      ELSE IF MovingSignature(ringStats(m.threat)) /\ nearlyStationary
      THEN [m |-> [m EXCEPT !.h.verdict = "legs"], dec |-> Decision(TRUE, FALSE, TRUE)]
      ELSE IF m.robot.state = "SLEEP" \/ m.robot.state = "LAYING"
      THEN [m |-> m, dec |-> Decision(FALSE, FALSE, FALSE)]
      ELSE [m |-> [m EXCEPT !.threat = ProbeReset([m.threat EXCEPT !.phase = "probing"]),
                            !.robot.pwmLeft = -PROBE_PWM,
                            !.robot.pwmRight = PROBE_PWM],
            dec |-> Decision(FALSE, TRUE, FALSE)]

\* Returns the robot and the decision {threat, override, enterAggression}.
updateThreatClassifierProbing(m, d) ==
  LET dtSample == Min2(d, DT_SAMPLE_MAX)
      t0 == m.threat
      dist == m.us.lastVal
      near == NearDist(dist)
      st == m.robot.state
      Decide(m3) ==
        IF st = "AGGRESSION"
        THEN [m |-> [m3 EXCEPT !.threat.phase = "idle", !.threat.probeTimer = 0,
                               !.threat.probeSamples = 0],
              dec |-> Decision(TRUE, FALSE, FALSE)]
        ELSE IF m3.threat.wallAvoid > 0 /\ st \in {"IDLE_SAFE", "GUARD", "CALMING"}
        THEN [m |-> [m3 EXCEPT !.robot.pwmLeft = -5500, !.robot.pwmRight = -2500],
              dec |-> Decision(FALSE, TRUE, FALSE)]
        ELSE IF m3.threat.suspect > 0 THEN ClassifierSuspect(m3, near)
        ELSE IF m3.threat.phase = "probing" THEN ClassifierProbing(m3, d, dist)
        ELSE ClassifierIdle(m3, near)
      Sampled(t2, t3) ==
        Decide([m EXCEPT !.threat = t3, !.h.near = near, !.h.cooldownSeen = t3.cooldown,
                         !.h.pushed = (t2.sampleTimer >= SAMPLE_DT),
                         !.h.windowN = t3.ringCount])
      Sample(t2) ==
        Sampled(t2, IF t2.sampleTimer >= SAMPLE_DT
                    THEN pushThreatSample([t2 EXCEPT !.sampleTimer = 0], dist)
                    ELSE t2)
  IN  Sample([t0 EXCEPT
                !.cooldown = IF t0.cooldown > 0 THEN Max2(0, t0.cooldown - d)
                             ELSE t0.cooldown,
                !.wallAvoid = IF t0.wallAvoid > 0 THEN Max2(0, t0.wallAvoid - d)
                              ELSE t0.wallAvoid,
                !.suspect = IF t0.suspect > 0 THEN Max2(0, t0.suspect - d)
                            ELSE t0.suspect,
                !.sampleTimer = t0.sampleTimer + dtSample])

enterProbing(m, newState) == enterRing(m, newState)

\* case STATE.IDLE_SAFE
ProbingIdleSafe(m, d) ==
  LET m1 == [m EXCEPT !.robot.safeTimer = m.robot.safeTimer + d]
      m2 == IF m1.robot.safeTimer >= SAFE_CYCLE_PERIOD
            THEN enterProbing([m1 EXCEPT !.robot.safeTimer = 0,
                                         !.robot.clutchesThisCycle = 0], "LAYING")
            ELSE m1
      m3 == RandStep(m2)
      m4 == RandStep(m3)
      m5 == RandStep(m4)
  IN  IF RandVal(m2) < 20
      THEN [m5 EXCEPT !.robot.pwmLeft = 3000 + (RandVal(m3) - 500) * 4,
                      !.robot.pwmRight = 3000 + (RandVal(m4) - 500) * 4]
      ELSE [m3 EXCEPT !.robot.pwmLeft = 3000, !.robot.pwmRight = 3000]

\* case STATE.LAYING
ProbingLaying(m, d) ==
  RingLaying([m EXCEPT !.robot.pwmLeft = 0, !.robot.pwmRight = 0], d)

\* case STATE.AGGRESSION
ProbingAggression(m, d) ==
  LET legsVisibleNow == NearDist(m.us.lastVal)
      start == m.robot.lungePhase = "null" \/ m.robot.lungePhase = "done"
      t0 == randBetween(m, 300, 600)
      m1 == IF start
            THEN RandStep([m EXCEPT !.robot.lungePhase = "drive",
                                    !.robot.lungeTimer = t0,
                                    !.robot.lungeDriveTime = t0])
            ELSE m
      t1 == m1.robot.lungeTimer - d
      search == [m EXCEPT !.robot.pwmLeft = -5000, !.robot.pwmRight = 5000]
      fwd == [m1 EXCEPT !.robot.pwmLeft = 10000, !.robot.pwmRight = 10000]
      rev == [m1 EXCEPT !.robot.pwmLeft = -8000, !.robot.pwmRight = -8000]
  IN  IF m.robot.stateTimer >= AGGRESSION_DURATION THEN enterProbing(m, "RETREATING")
      ELSE IF ~legsVisibleNow
      THEN IF m.robot.stateTimer > LOST_TIMEOUT
           THEN enterProbing(search, "RETREATING") ELSE search
      ELSE IF m1.robot.lungePhase = "drive"
      THEN IF t1 <= 0
           THEN [fwd EXCEPT !.robot.lungePhase = "back",
                            !.robot.lungeTimer = m1.robot.lungeDriveTime]
           ELSE [fwd EXCEPT !.robot.lungeTimer = t1]
      ELSE IF m1.robot.lungePhase = "back"
      THEN IF t1 <= 0
           THEN [rev EXCEPT !.robot.lungeTimer = t1, !.robot.lungePhase = "done"]
           ELSE [rev EXCEPT !.robot.lungeTimer = t1]
      ELSE m1

\* case STATE.RETREATING
ProbingRetreating(m) ==
  LET m1 == [m EXCEPT !.robot.pwmLeft = -6000, !.robot.pwmRight = -6000]
  IN  IF m1.robot.stateTimer > RETREAT_TIME THEN enterProbing(m1, "GUARD") ELSE m1

\* case STATE.GUARD and case STATE.CALMING: both begin with
\* "if (legsPresent)", and legsPresent is declared nowhere in this firmware:
\* the read throws a ReferenceError and updateBehavior ends there.
ProbingThrows(m) == [m EXCEPT !.h.threw = TRUE]

updateBehaviorProbing(m, d) ==
  LET Switch(m3) ==
        CASE m3.robot.state = "SLEEP" ->
               [m3 EXCEPT !.robot.pwmLeft = 0, !.robot.pwmRight = 0]
          [] m3.robot.state = "IDLE_SAFE"  -> ProbingIdleSafe(m3, d)
          [] m3.robot.state = "LAYING"     -> ProbingLaying(m3, d)
          [] m3.robot.state = "AGGRESSION" -> ProbingAggression(m3, d)
          [] m3.robot.state = "RETREATING" -> ProbingRetreating(m3)
          [] m3.robot.state = "GUARD"      -> ProbingThrows(m3)
          [] m3.robot.state = "CALMING"    -> ProbingThrows(m3)
          [] OTHER                         -> m3
      React(m2, enterAggression) ==
        IF enterAggression /\ m2.robot.state # "AGGRESSION"
        THEN enterProbing(m2, "AGGRESSION") ELSE m2
      Behave(m3, override) ==
        IF override /\ m3.robot.state # "AGGRESSION" THEN m3 ELSE Switch(m3)
      Classified(c) ==
        Behave(React([c.m EXCEPT !.h.enterAggr = c.dec.enterAggression,
                                 !.h.override = c.dec.override],
                     c.dec.enterAggression),
               c.dec.override)
  IN  Classified(updateThreatClassifierProbing(
                   [m EXCEPT !.robot.stateTimer = m.robot.stateTimer + d], d))

----------------------------------------------------------------------------
(* firmware.js 1-669: territory / shove firmware.  Distances in cm as in   *)
(* the code; scan.filtered = null is the empty sequence.                   *)

ULTRASONIC_MIN_CM == 8
ULTRASONIC_MAX_CM == 250
ULTRASONIC_NO_ECHO_CM == 300

D_DETECT == 100
D_ENGAGE == 80
D_HOLD == 65
D_SAFE == 50
D_PANIC == 35
V_PATROL == 3500
V_APPROACH == 4500
V_PUSH == 5500
V_PULL == 4000
V_PANIC_REV == 6000
K_THETA == 150
TURN_LIM == 3500
FRONT_PING_DT == 78
FULL_SCAN_DT == 720
PING_GAP_DT == 15
FLAT_N == 4
FLAT_T_CM == 15
NEVER_AT == -599400
\* PANIC's phase durations: 0.05 s, 0.4 s, 0.5 s, 2.0 s
PANIC_STOP_T == 30
PANIC_REVERSE_T == 240
PANIC_TURN_T == 300
PANIC_COOLDOWN_T == 1200
\* ACQUIRE's timeout: 1.5 s
ACQUIRE_TIMEOUT == 900
\* The far timers' limits: 1.2 s in SHOVE, 2.0 s in BLOCK
SHOVE_FAR_T == 720
BLOCK_FAR_T == 1200

median3(a, b, c) ==
  LET a1 == IF a > b THEN b ELSE a
      b1 == IF a > b THEN a ELSE b
      b2 == IF b1 > c THEN c ELSE b1
  IN  IF a1 > b2 THEN a1 ELSE b2

\* normaliseCmFromMeters with a missing echo taken as the nearest reading
normaliseNoEchoAsNearest(m) ==
  IF ~IsFinite(m) THEN ULTRASONIC_MIN_CM
  ELSE clamp(m, ULTRASONIC_MIN_CM, ULTRASONIC_MAX_CM)

\* m is the sensor's value: centimetres here, INF for Infinity.
normaliseCmFromMeters(m) ==
  IF ~IsFinite(m) THEN ULTRASONIC_NO_ECHO_CM
  ELSE clamp(m, ULTRASONIC_MIN_CM, ULTRASONIC_MAX_CM)

mean2(a, b) == (a + b) \div 2

scanAnglesDeg == [i \in 1 .. 13 |-> -60 + 10 * (i - 1)]

countTrue(arr) == Cardinality({i \in DOMAIN arr : arr[i]})

enter(m, newState) ==
  LET m0 == [m EXCEPT !.robot.state = newState, !.robot.stateTimer = 0]
  IN  CASE newState = "PATROL"  -> [m0 EXCEPT !.scan.requestedFull = TRUE]
        [] newState = "ACQUIRE" -> [m0 EXCEPT !.scan.requestedFull = TRUE]
        [] newState = "SHOVE"   ->
             RandStep([m0 EXCEPT !.fw.shove = [phase |-> "PUSH", phaseT |-> 0,
                                    cyclesDone |-> 0,
                                    cyclesTarget |-> 3 + (RandVal(m0) * 4) \div 1000,
                                    farT |-> 0, closePersistT |-> 0, snapStep |-> 0],
                                 !.scan.requestedFull = TRUE])
        [] newState = "BLOCK"   ->
             [m0 EXCEPT !.fw.block = [fakeLungeT |-> 600, farT |-> 0, lungeRem |-> 0]]
        [] newState = "PANIC"   ->
             [m0 EXCEPT !.fw.panic = [phase |-> "STOP", t |-> 0, cooldown |-> 0]]
        [] newState = "RECOVER" -> ServoSetTargetDeg(m0, 0)
        [] OTHER                -> m0

\* _startFullScan keeping the readings of the previous scan
startFullScanKeepsRaw(m) ==
  [m EXCEPT !.scan.mode = "full", !.scan.idx = 0, !.scan.stage = "move",
            !.scan.pingGap = 0, !.scan.pings = << >>,
            !.scan.filtered = << >>, !.scan.lastFullAt = 0]

startFullScan(m) ==
  [m EXCEPT !.scan.mode = "full", !.scan.idx = 0, !.scan.stage = "move",
            !.scan.pingGap = 0, !.scan.pings = << >>,
            !.scan.raw = [i \in 1 .. 13 |-> ULTRASONIC_NO_ECHO_CM],
            !.scan.filtered = << >>, !.scan.lastFullAt = 0]

applyAngleMedianFilter(raw) ==
  LET n == Len(raw)
  IN  [i \in 1 .. n |-> median3(raw[Max2(1, i - 1)], raw[i], raw[Min2(n, i + 1)])]

\* _isFlatSegment with the tolerance FLAT_T_CM dropped: only equal readings are flat
isFlatSegmentNoTolerance(filtered, startIdx, len) ==
  LET vals == {filtered[startIdx + i + 1] : i \in 0 .. (len - 1)}
      RECURSIVE sum(_)
      sum(i) == IF i >= len THEN 0 ELSE filtered[startIdx + i + 1] + sum(i + 1)
  IN  Cardinality(vals) = 1 /\ sum(0) < 200 * len

\* startIdx is 0-based as in the code; mean < 200 is sum < 200 * len.
isFlatSegment(filtered, startIdx, len) ==
  LET vals == {filtered[startIdx + i + 1] : i \in 0 .. (len - 1)}
      minD == CHOOSE v \in vals : \A u \in vals : v <= u
      maxD == CHOOSE v \in vals : \A u \in vals : v >= u
      RECURSIVE sum(_)
      sum(i) == IF i >= len THEN 0 ELSE filtered[startIdx + i + 1] + sum(i + 1)
  IN  (maxD - minD) < FLAT_T_CM /\ sum(0) < 200 * len

\* Index (0-based) of the first minimum of d over the angles in [-40, 40].
BestIdx(d) ==
  LET I == {i \in 0 .. 12 : scanAnglesDeg[i + 1] >= -40 /\ scanAnglesDeg[i + 1] <= 40}
  IN  CHOOSE i \in I : /\ \A j \in I : d[i + 1] <= d[j + 1]
                       /\ \A j \in I : j < i => d[j + 1] > d[i + 1]

classifyTargetFromScan(m) ==
  LET d == m.scan.filtered
      bestIdx == BestIdx(d)
      bestD == d[bestIdx + 1]
      startMin == Max2(0, bestIdx - (FLAT_N - 1))
      startMax == Min2(Len(d) - FLAT_N, bestIdx)
      isWall == \E st \in startMin .. startMax :
                  isFlatSegment(d, st, FLAT_N) /\ bestIdx >= st /\ bestIdx < st + FLAT_N
      present == bestD < D_DETECT /\ ~isWall
  IN  IF d = << >> THEN m
      ELSE [m EXCEPT !.scan.targetCm = bestD,
                     !.scan.targetThetaDeg = scanAnglesDeg[bestIdx + 1],
                     !.scan.targetIsWall = isWall,
                     !.scan.fullHist = [m.scan.fullHist EXCEPT
                                          ![m.scan.fullHistIdx + 1] = present],
                     !.scan.fullHistIdx = (m.scan.fullHistIdx + 1) % 3,
                     !.robot.percept = IF bestD >= D_DETECT THEN "empty"
                                       ELSE IF isWall THEN "wall" ELSE "legs",
                     !.h.classified = TRUE]

\* The firmware's own robot.ultrasonic.ping(): the reading is taken if the
\* sensor accepts the ping (seq changes), else nothing changes.
updateFullScan(m, d) ==
  LET sc == m.scan
      i == sc.idx
      done == classifyTargetFromScan(
                [m EXCEPT !.scan.mode = "idle",
                          !.scan.filtered = applyAngleMedianFilter(sc.raw),
                          !.scan.lastFullAt = 0])
      fin == [done EXCEPT !.h.before = [scan |-> m.scan, robot |-> m.robot],
                          !.h.after = [scan |-> done.scan, robot |-> done.robot],
                          !.h.scanned = TRUE]
      m1 == ServoSetTargetDeg(m, scanAnglesDeg[i + 1])
      m2 == IF sc.stage = "move"
            THEN [m1 EXCEPT !.scan.pings = << >>, !.scan.stage = "ping1"]
            ELSE m1
      pinged == SensorPing(m2)
      got == pinged.us.seq # m2.us.seq
      cm == normaliseCmFromMeters(pinged.us.lastVal)
      pings2 == Append(m2.scan.pings, cm)
      a == IF Len(pings2) >= 1 THEN pings2[1] ELSE ULTRASONIC_NO_ECHO_CM
      b == IF Len(pings2) >= 2 THEN pings2[2] ELSE a
      gap == m2.scan.pingGap + d
  IN  IF sc.mode # "full" THEN m
      ELSE IF i >= 13 THEN fin
      ELSE CASE m2.scan.stage = "ping1" ->
                  IF got
                  THEN [pinged EXCEPT !.scan.pings = pings2, !.scan.pingGap = 0,
                                      !.scan.stage = "gap", !.h.fwPings = @ + 1,
                                      !.h.idxPings = @ + 1,
                                      !.h.scanPing = [at |-> m2.servo.angle,
                                                      for |-> scanAnglesDeg[i + 1]]]
                  ELSE [m2 EXCEPT !.h.refused = @ + 1]
             [] m2.scan.stage = "gap" ->
                  [m2 EXCEPT !.scan.pingGap = gap,
                             !.scan.stage = IF gap >= PING_GAP_DT THEN "ping2" ELSE "gap"]
             [] m2.scan.stage = "ping2" ->
                  IF got
                  THEN [pinged EXCEPT !.scan.pings = pings2,
                                      !.scan.raw = [m2.scan.raw EXCEPT ![i + 1] = mean2(a, b)],
                                      !.scan.idx = i + 1,
                                      !.scan.stage = "move", !.h.fwPings = @ + 1,
                                      !.h.idxPings = @ + 1,
                                      !.h.scanPing = [at |-> m2.servo.angle,
                                                      for |-> scanAnglesDeg[i + 1]]]
                  ELSE [m2 EXCEPT !.h.refused = @ + 1]
             [] OTHER -> m2

updateFrontPing(m, d, servoDeg) ==
  LET m1 == ServoSetTargetDeg(m, servoDeg)
      m2 == [m1 EXCEPT !.scan.lastFrontAt = 0]
      pinged == SensorPing(m2)
      cm == normaliseCmFromMeters(pinged.us.lastVal)
  IN  IF m.scan.mode = "full" THEN [m EXCEPT !.robot.percept = "scanning"]
      ELSE IF m1.scan.lastFrontAt < FRONT_PING_DT THEN m1
      ELSE IF pinged.us.seq = m2.us.seq THEN [m2 EXCEPT !.h.refused = @ + 1]
      ELSE [pinged EXCEPT !.scan.frontCm = cm,
                          !.scan.frontHist = [m2.scan.frontHist EXCEPT
                                                ![m2.scan.frontHistIdx + 1] = cm < D_DETECT],
                          !.scan.frontHistIdx = (m2.scan.frontHistIdx + 1) % 5,
                          !.h.fwPings = @ + 1, !.h.frontPinged = TRUE]

\* K_THETA * thetaDeg, limited to +-TURN_LIM
turnFromTheta(thetaDeg) == clamp(K_THETA * thetaDeg, -TURN_LIM, TURN_LIM)

drive(m, forward, turn) ==
  [m EXCEPT !.robot.pwmLeft = clamp(forward - turn, -10000, 10000),
            !.robot.pwmRight = clamp(forward + turn, -10000, 10000),
            !.h.drove = TRUE]

\* PATROL's free-corridor angle: the first angle in [-40, 40] that maximises
\* dist - 0.8 * |a| (compared as 5 * dist - 4 * |a|); 0 without a scan.
DesiredTheta(filtered) ==
  LET I == {i \in 1 .. 13 : scanAnglesDeg[i] >= -40 /\ scanAnglesDeg[i] <= 40}
      score(i) == 5 * filtered[i] - 4 * Abs(scanAnglesDeg[i])
      best == CHOOSE i \in I : /\ \A j \in I : score(i) >= score(j)
                               /\ \A j \in I : j < i => score(j) < score(i)
  IN  IF filtered = << >> THEN 0 ELSE scanAnglesDeg[best]

\* LINE_AVOID / PANIC turn direction: sumR >= sumL ? 1 : -1
OpenSide(filtered) ==
  LET RECURSIVE sumOver(_, _)
      sumOver(i, left) ==
        IF i > 13 THEN 0
        ELSE (IF (scanAnglesDeg[i] < 0) = left THEN filtered[i] ELSE 0)
             + sumOver(i + 1, left)
  IN  IF filtered = << >> THEN 1
      ELSE IF sumOver(1, FALSE) >= sumOver(1, TRUE) THEN 1 ELSE -1

\* PATROL deciding on the scene in front of the robot instead of the front ping
CasePatrolSeesScene(m, d) ==
  LET Drive(m4, wiggling) ==
        drive(m4, V_PATROL,
              turnFromTheta(DesiredTheta(m4.scan.filtered)
                            + (IF wiggling THEN m4.fw.patrolWiggleDir * 10 ELSE 0)))
      Wiggle(m3) ==
        Drive(IF m3.fw.patrolWiggleRem > 0
              THEN [m3 EXCEPT !.fw.patrolWiggleRem = m3.fw.patrolWiggleRem - d]
              ELSE m3,
              m3.fw.patrolWiggleRem > 0)
      Timer(m2, r1) ==
        Wiggle(IF m2.fw.patrolWiggleT <= 0
               THEN [RandStep(r1) EXCEPT
                       !.fw.patrolWiggleT = 1800 + (RandVal(m2) * 2400) \div 1000,
                       !.fw.patrolWiggleDir = IF RandVal(r1) < 500 THEN -1 ELSE 1,
                       !.fw.patrolWiggleRem = IF m2.scan.frontCm > 80 THEN 300
                                              ELSE m2.fw.patrolWiggleRem]
               ELSE [m2 EXCEPT !.fw.patrolWiggleT = m2.fw.patrolWiggleT - d])
      Pinged(m2) ==
        IF NearestHit(m2.world, 0, m2.us.seq) < D_DETECT THEN enter(m2, "ACQUIRE")
        ELSE Timer(m2, RandStep(m2))
  IN  Pinged(updateFrontPing(
               IF m.scan.lastFullAt >= FULL_SCAN_DT
               THEN [m EXCEPT !.scan.requestedFull = TRUE] ELSE m, d, 0))

\* case STATE.PATROL
CasePatrol(m, d) ==
  LET Drive(m4, wiggling) ==
        drive(m4, V_PATROL,
              turnFromTheta(DesiredTheta(m4.scan.filtered)
                            + (IF wiggling THEN m4.fw.patrolWiggleDir * 10 ELSE 0)))
      Wiggle(m3) ==
        Drive(IF m3.fw.patrolWiggleRem > 0
              THEN [m3 EXCEPT !.fw.patrolWiggleRem = m3.fw.patrolWiggleRem - d]
              ELSE m3,
              m3.fw.patrolWiggleRem > 0)
      Timer(m2, r1) ==
        Wiggle(IF m2.fw.patrolWiggleT <= 0
               THEN [RandStep(r1) EXCEPT
                       !.fw.patrolWiggleT = 1800 + (RandVal(m2) * 2400) \div 1000,
                       !.fw.patrolWiggleDir = IF RandVal(r1) < 500 THEN -1 ELSE 1,
                       !.fw.patrolWiggleRem = IF m2.scan.frontCm > 80 THEN 300
                                              ELSE m2.fw.patrolWiggleRem]
               ELSE [m2 EXCEPT !.fw.patrolWiggleT = m2.fw.patrolWiggleT - d])
      Pinged(m2) ==
        IF m2.scan.frontCm < D_DETECT THEN enter(m2, "ACQUIRE")
        ELSE Timer(m2, RandStep(m2))
  IN  Pinged(updateFrontPing(
               IF m.scan.lastFullAt >= FULL_SCAN_DT
               THEN [m EXCEPT !.scan.requestedFull = TRUE] ELSE m, d, 0))

\* CaseAcquire entering SHOVE on confirmation alone, without hasTarget
CaseAcquireOnConfirmation(m, d, targetCm, thetaDeg, confirmedByFull, confirmedByFront, hasTarget) ==
  LET Decide(m3) ==
        IF \/ (confirmedByFull \/ confirmedByFront)
           \/ (targetCm < D_ENGAGE /\ ~m3.scan.targetIsWall)
        THEN enter(m3, "SHOVE")
        ELSE IF m3.robot.stateTimer > ACQUIRE_TIMEOUT /\ ~(confirmedByFront \/ hasTarget)
        THEN enter(m3, "PATROL")
        ELSE m3
      Face(m2) ==
        Decide(ServoSetTargetDeg(drive(m2, 0, turnFromTheta(thetaDeg)), thetaDeg))
      Pinged(m1) ==
        Face(IF m1.scan.lastFullAt >= 540 /\ m1.scan.mode # "full"
             THEN [m1 EXCEPT !.scan.requestedFull = TRUE] ELSE m1)
  IN  Pinged(updateFrontPing(m, d, thetaDeg))

\* case STATE.ACQUIRE
CaseAcquire(m, d, targetCm, thetaDeg, confirmedByFull, confirmedByFront, hasTarget) ==
  LET Decide(m3) ==
        IF \/ (hasTarget /\ (confirmedByFull \/ confirmedByFront))
           \/ (targetCm < D_ENGAGE /\ ~m3.scan.targetIsWall)
        THEN enter([m3 EXCEPT !.h.confirmed = confirmedByFull \/ confirmedByFront], "SHOVE")
        ELSE IF m3.robot.stateTimer > ACQUIRE_TIMEOUT /\ ~(confirmedByFront \/ hasTarget)
        THEN enter(m3, "PATROL")
        ELSE m3
      Face(m2) ==
        Decide(ServoSetTargetDeg(drive(m2, 0, turnFromTheta(thetaDeg)), thetaDeg))
      Pinged(m1) ==
        Face(IF m1.scan.lastFullAt >= 540 /\ m1.scan.mode # "full"
             THEN [m1 EXCEPT !.scan.requestedFull = TRUE] ELSE m1)
  IN  Pinged(updateFrontPing(m, d, thetaDeg))

\* ShovePush without the distance test of canPush
ShovePushAnyDistance(m, dNow, turn) ==
  LET canPush == TRUE
  IN  IF dNow <= D_SAFE THEN enter(m, "PANIC")
      ELSE IF canPush /\ m.fw.shove.phaseT <= 420
      THEN [drive(m, V_PUSH, turn) EXCEPT !.h.pushCmd = TRUE]
      ELSE drive([m EXCEPT !.fw.shove.phase = "SNAP", !.fw.shove.phaseT = 0,
                           !.fw.shove.snapStep = 0], 0, 0)

\* SHOVE, phase PUSH
ShovePush(m, dNow, turn) ==
  LET canPush == dNow > D_HOLD + 10 /\ dNow > D_SAFE + 10
  IN  IF dNow <= D_SAFE THEN enter(m, "PANIC")
      ELSE IF canPush /\ m.fw.shove.phaseT <= 420
      THEN [drive(m, V_PUSH, turn) EXCEPT !.h.pushCmd = TRUE]
      ELSE drive([m EXCEPT !.fw.shove.phase = "SNAP", !.fw.shove.phaseT = 0,
                           !.fw.shove.snapStep = 0], 0, 0)

\* SHOVE, phase SNAP
ShoveSnap(m, thetaDeg) ==
  LET m1 == drive(m, 0, 0)
      sh == m1.fw.shove
      m2 == IF sh.snapStep = 0
            THEN [ServoSetTargetDeg(m1, thetaDeg) EXCEPT !.fw.shove.snapStep = 1]
            ELSE IF sh.snapStep = 1 /\ sh.phaseT > 48
            THEN [RandStep(ServoSetTargetDeg(m1,
                     thetaDeg + (IF RandVal(m1) < 500 THEN -10 ELSE 10)))
                    EXCEPT !.fw.shove.snapStep = 2]
            ELSE IF sh.snapStep = 2 /\ sh.phaseT > 96
            THEN [ServoSetTargetDeg(m1, thetaDeg) EXCEPT !.fw.shove.snapStep = 3]
            ELSE m1
  IN  IF sh.phaseT >= 120
      THEN [m2 EXCEPT !.fw.shove.phase = "PULL", !.fw.shove.phaseT = 0]
      ELSE m2

\* SHOVE, phase PULL
ShovePull(m, dNow, turn) ==
  LET done == m.fw.shove.phaseT >= 210 \/ dNow > D_HOLD + 25
      m1 == drive(m, -V_PULL, (turn * 3) \div 10)
      m2 == [m1 EXCEPT !.fw.shove.cyclesDone = @ + 1]
      m3 == IF m2.fw.shove.cyclesDone >= m2.fw.shove.cyclesTarget
            THEN IF m2.fw.shove.closePersistT >= 720 THEN enter(m2, "BLOCK")
                 ELSE [m2 EXCEPT !.fw.shove.cyclesDone = 0]
            ELSE m2
  IN  IF done THEN [m3 EXCEPT !.fw.shove.phase = "PUSH", !.fw.shove.phaseT = 0]
      ELSE m1

\* case STATE.SHOVE
CaseShove(m, d, targetCm, thetaDeg) ==
  LET turn == turnFromTheta(thetaDeg)
      Phase(m3, dNow) ==
        CASE m3.fw.shove.phase = "PUSH" -> ShovePush(m3, dNow, turn)
          [] m3.fw.shove.phase = "SNAP" -> ShoveSnap(m3, thetaDeg)
          [] m3.fw.shove.phase = "PULL" -> ShovePull(m3, dNow, turn)
          [] OTHER -> m3
      Far(m2, dNow) ==
        IF m2.fw.shove.farT >= SHOVE_FAR_T THEN enter(m2, "RECOVER")
        ELSE Phase([m2 EXCEPT !.fw.shove.closePersistT = IF dNow < 90 THEN @ + d ELSE 0,
                              !.fw.shove.phaseT = @ + d], dNow)
      Near(m1, dNow) ==
        IF dNow < D_PANIC THEN enter(m1, "PANIC")
        ELSE Far([m1 EXCEPT !.fw.shove.farT = IF dNow > 110 THEN @ + d ELSE 0], dNow)
      Pinged(m1) == Near(m1, Min2(targetCm, m1.scan.frontCm))
  IN  Pinged(updateFrontPing(m, d, thetaDeg))

\* case STATE.BLOCK
CaseBlock(m, d, targetCm, thetaDeg) ==
  LET side == IF thetaDeg > 10 THEN 1800 ELSE IF thetaDeg < -10 THEN -1800 ELSE 0
      Hold(m5, dNow, lunging, fwd) ==
        IF lunging /\ dNow > D_SAFE + 10
        THEN [drive(m5, (V_APPROACH * 6) \div 10, turnFromTheta(thetaDeg))
                EXCEPT !.h.pushCmd = TRUE]
        ELSE [drive(m5, fwd, side + (turnFromTheta(thetaDeg) * 6) \div 10)
                EXCEPT !.h.pushCmd = (fwd > 0)]
      Lunge(m4, dNow) ==
        Hold(IF m4.fw.block.lungeRem > 0
             THEN [m4 EXCEPT !.fw.block.lungeRem = @ - d] ELSE m4,
             dNow, m4.fw.block.lungeRem > 0,
             clamp((dNow - D_HOLD) * 125, -2500, 2500))
      Fake(m3, dNow) ==
        Lunge(IF m3.fw.block.fakeLungeT <= 0
              THEN RandStep([m3 EXCEPT !.fw.block.fakeLungeT =
                                          1200 + (RandVal(m3) * 600) \div 1000,
                                       !.fw.block.lungeRem = 132])
              ELSE m3, dNow)
      Far(m2, dNow) ==
        IF m2.fw.block.farT >= BLOCK_FAR_T THEN enter(m2, "RECOVER")
        ELSE Fake([m2 EXCEPT !.fw.block.fakeLungeT = @ - d], dNow)
      Near(m1, dNow) ==
        IF dNow < D_PANIC THEN enter(m1, "PANIC")
        ELSE Far([m1 EXCEPT !.fw.block.farT = IF dNow > 150 THEN @ + d ELSE 0], dNow)
      Pinged(m1) == Near(m1, Min2(targetCm, m1.scan.frontCm))
  IN  Pinged(updateFrontPing(m, d, thetaDeg))

\* CaseLineAvoid without the immediate stop: the retreat starts at once
CaseLineAvoidNoStop(m, targetCm) ==
  LET t == m.robot.stateTimer
      stillNear == m.scan.frontCm < D_DETECT \/ targetCm < D_DETECT
  IN  IF t < 222 THEN drive(m, -4500, 0)
      ELSE IF t < 522 THEN drive(m, 0, OpenSide(m.scan.filtered) * 3500)
      ELSE IF t < 942 THEN drive(m, 0, 0)
      ELSE IF stillNear /\ m.fw.returnState \in {"SHOVE", "BLOCK"}
      THEN enter(m, m.fw.returnState)
      ELSE enter(m, "PATROL")

\* case STATE.LINE_AVOID
CaseLineAvoid(m, targetCm) ==
  LET t == m.robot.stateTimer
      stillNear == m.scan.frontCm < D_DETECT \/ targetCm < D_DETECT
  IN  IF t < 12 THEN drive(m, 0, 0)
      ELSE IF t < 222 THEN drive(m, -4500, 0)
      ELSE IF t < 522 THEN drive(m, 0, OpenSide(m.scan.filtered) * 3500)
      ELSE IF t < 942 THEN drive(m, 0, 0)
      ELSE IF stillNear /\ m.fw.returnState \in {"SHOVE", "BLOCK"}
      THEN enter(m, m.fw.returnState)
      ELSE enter(m, "PATROL")

\* case STATE.PANIC
CasePanic(m, d) ==
  LET Cooldown(c2) ==
        IF c2.fw.panic.cooldown <= 0 THEN enter(c2, "PATROL") ELSE c2
      Phase(m1, p) ==
        CASE p.phase = "STOP" ->
               IF p.t >= PANIC_STOP_T
               THEN [drive(m1, 0, 0) EXCEPT !.fw.panic.phase = "REVERSE",
                                            !.fw.panic.t = 0]
               ELSE drive(m1, 0, 0)
          [] p.phase = "REVERSE" ->
               IF p.t >= PANIC_REVERSE_T
               THEN [drive(m1, -V_PANIC_REV, 0) EXCEPT !.fw.panic.phase = "TURN",
                                                       !.fw.panic.t = 0]
               ELSE drive(m1, -V_PANIC_REV, 0)
          [] p.phase = "TURN" ->
               IF p.t >= PANIC_TURN_T
               THEN [drive(m1, 0, OpenSide(m1.scan.filtered) * 3500)
                       EXCEPT !.fw.panic.phase = "COOLDOWN", !.fw.panic.t = 0,
                              !.fw.panic.cooldown = PANIC_COOLDOWN_T,
                              !.h.armedT = 0]
               ELSE drive(m1, 0, OpenSide(m1.scan.filtered) * 3500)
          [] p.phase = "COOLDOWN" ->
               Cooldown(drive(updateFrontPing([m1 EXCEPT !.fw.panic.cooldown = @ - d],
                                              d, 0),
                              V_PATROL, turnFromTheta(0)))
          [] OTHER -> m1
      Timed(m1) == Phase(m1, m1.fw.panic)
  IN  Timed([m EXCEPT !.fw.panic.t = @ + d])

\* case STATE.RECOVER
CaseRecover(m) ==
  LET m1 == ServoSetTargetDeg(drive(m, 0, 0), 0)
  IN  IF m1.robot.stateTimer >= 240 THEN enter(m1, "PATROL") ELSE m1

\* LinePriority assigning robot.state itself instead of calling enter()
LinePriorityAssignsState(m, line) ==
  IF m.robot.state # "LINE_AVOID" /\ line
  THEN [m EXCEPT !.fw.returnState = m.robot.state, !.robot.state = "LINE_AVOID"]
  ELSE m

\* LinePriority without the test that the robot is not already in LINE_AVOID
LinePriorityAlways(m, line) ==
  IF line
  THEN enter([m EXCEPT !.fw.returnState = m.robot.state], "LINE_AVOID")
  ELSE m

\* firmware.js 373-377: line avoidance is absolute priority
LinePriority(m, line) ==
  IF m.robot.state # "LINE_AVOID" /\ line
  THEN enter([m EXCEPT !.fw.returnState = m.robot.state], "LINE_AVOID")
  ELSE m

\* updateBehavior with a scan start that does not look at scan.mode.
updateBehaviorRestartsScan(m, d, line) ==
  LET Switch(m5, targetCm, thetaDeg, confirmedByFull, confirmedByFront) ==
        CASE m5.robot.state = "PATROL"     -> CasePatrol(m5, d)
          [] m5.robot.state = "ACQUIRE"    ->
               CaseAcquire(m5, d, targetCm, thetaDeg, confirmedByFull, confirmedByFront,
                           targetCm < D_DETECT /\ ~m5.scan.targetIsWall)
          [] m5.robot.state = "SHOVE"      -> CaseShove(m5, d, targetCm, thetaDeg)
          [] m5.robot.state = "BLOCK"      -> CaseBlock(m5, d, targetCm, thetaDeg)
          [] m5.robot.state = "LINE_AVOID" -> CaseLineAvoid(m5, targetCm)
          [] m5.robot.state = "PANIC"      -> CasePanic(m5, d)
          [] m5.robot.state = "RECOVER"    -> CaseRecover(m5)
          [] OTHER                         -> m5
      Behave(m5) ==
        Switch(m5, m5.scan.targetCm, m5.scan.targetThetaDeg,
               countTrue(m5.scan.fullHist) >= 2, countTrue(m5.scan.frontHist) >= 3)
      Timers(m3) ==
        Behave(LinePriority(
                 IF m3.scan.mode # "full"
                 THEN [m3 EXCEPT !.scan.lastFullAt = @ + d, !.scan.lastFrontAt = @ + d]
                 ELSE m3, line))
      Scan(m2) ==
        Timers(IF m2.scan.mode = "full"
               THEN updateFullScan([m2 EXCEPT !.robot.percept = "scanning"], d)
               ELSE m2)
      Start(m1) ==
        Scan(IF m1.scan.requestedFull
             THEN [startFullScan(m1) EXCEPT !.scan.requestedFull = FALSE,
                                            !.h.scanStarted = TRUE,
                                            !.h.idxPings = 0]
             ELSE m1)
  IN  Start([m EXCEPT !.robot.stateTimer = @ + d,
                      !.h.armedT = IF @ < 0 THEN @ ELSE @ + d])

\* line is what _lineDetected(robot) returns on this tick: an input.
updateBehavior(m, d, line) ==
  LET Switch(m5, targetCm, thetaDeg, confirmedByFull, confirmedByFront) ==
        CASE m5.robot.state = "PATROL"     -> CasePatrol(m5, d)
          [] m5.robot.state = "ACQUIRE"    ->
               CaseAcquire(m5, d, targetCm, thetaDeg, confirmedByFull, confirmedByFront,
                           targetCm < D_DETECT /\ ~m5.scan.targetIsWall)
          [] m5.robot.state = "SHOVE"      -> CaseShove(m5, d, targetCm, thetaDeg)
          [] m5.robot.state = "BLOCK"      -> CaseBlock(m5, d, targetCm, thetaDeg)
          [] m5.robot.state = "LINE_AVOID" -> CaseLineAvoid(m5, targetCm)
          [] m5.robot.state = "PANIC"      -> CasePanic(m5, d)
          [] m5.robot.state = "RECOVER"    -> CaseRecover(m5)
          [] OTHER                         -> m5
      Behave(m5) ==
        Switch(m5, m5.scan.targetCm, m5.scan.targetThetaDeg,
               countTrue(m5.scan.fullHist) >= 2, countTrue(m5.scan.frontHist) >= 3)
      Timers(m3) ==
        Behave(LinePriority(
                 IF m3.scan.mode # "full"
                 THEN [m3 EXCEPT !.scan.lastFullAt = @ + d, !.scan.lastFrontAt = @ + d]
                 ELSE m3, line))
      Scan(m2) ==
        Timers(IF m2.scan.mode = "full"
               THEN updateFullScan([m2 EXCEPT !.robot.percept = "scanning"], d)
               ELSE m2)
      Start(m1) ==
        Scan(IF m1.scan.requestedFull /\ m1.scan.mode # "full"
             THEN [startFullScan(m1) EXCEPT !.scan.requestedFull = FALSE,
                                            !.h.scanStarted = TRUE,
                                            !.h.idxPings = 0]
             ELSE m1)
  IN  Start([m EXCEPT !.robot.stateTimer = @ + d,
                      !.h.armedT = IF @ < 0 THEN @ ELSE @ + d])

Scan0 ==
  [mode |-> "idle", idx |-> 0, stage |-> "move", pingGap |-> 0, pings |-> << >>,
   raw |-> << >>, filtered |-> << >>, lastFullAt |-> NEVER_AT, requestedFull |-> TRUE,
   lastFrontAt |-> NEVER_AT, lastFrontSeq |-> -1, frontCm |-> ULTRASONIC_NO_ECHO_CM,
   frontHist |-> [i \in 1 .. 5 |-> FALSE], frontHistIdx |-> 0,
   targetCm |-> ULTRASONIC_NO_ECHO_CM, targetThetaDeg |-> 0, targetIsWall |-> FALSE,
   fullHist |-> [i \in 1 .. 3 |-> FALSE], fullHistIdx |-> 0]

Fw0 ==
  [returnState |-> "PATROL", patrolWiggleT |-> 0, patrolWiggleRem |-> 0,
   patrolWiggleDir |-> 1,
   shove |-> [phase |-> "PUSH", phaseT |-> 0, cyclesDone |-> 0, cyclesTarget |-> 4,
              farT |-> 0, closePersistT |-> 0, snapStep |-> 0],
   block |-> [fakeLungeT |-> 0, farT |-> 0, lungeRem |-> 0],
   panic |-> [phase |-> "STOP", t |-> 0, cooldown |-> 0]]

----------------------------------------------------------------------------
(* One frame.  The robot's objects are gathered into one record m, the     *)
(* frame's code is applied to it in program order, and the result is       *)
(* written back.  m.h (the variable obs) records what the frame did.       *)

Pack ==
  [robot |-> robot, fw |-> fw, scan |-> scan, threat |-> threat, servo |-> servo,
   us |-> ultrasonic, rng |-> rng, world |-> world, h |-> obs]

Unpack(m) ==
  /\ robot' = m.robot
  /\ fw' = m.fw
  /\ scan' = m.scan
  /\ threat' = m.threat
  /\ servo' = m.servo
  /\ ultrasonic' = m.us
  /\ rng' = m.rng
  /\ world' = m.world
  /\ obs' = m.h

NoFw == [none |-> TRUE]

\* The classifier's timers, as a frame finds them.
TimersOf(th) ==
  IF firmware = "probing"
  THEN [cooldown |-> th.cooldown, sampleTimer |-> th.sampleTimer,
        wallAvoid |-> th.wallAvoid, suspect |-> th.suspect,
        probeTimer |-> th.probeTimer]
  ELSE IF firmware = "ring"
  THEN [cooldown |-> th.cooldown, sampleTimer |-> th.sampleTimer]
  ELSE NoFw

\* What the frame is given: the scene w and the line sensor's answer.
BeginFrame(m, w, line) ==
  [m EXCEPT !.world = w,
            !.h = [m.h EXCEPT !.startState = m.robot.state, !.line = line,
                              !.near = FALSE, !.cooldownSeen = 0, !.pushed = FALSE,
                              !.windowN = 0, !.verdict = "none", !.enterAggr = FALSE,
                              !.override = FALSE, !.threw = FALSE,
                              !.classified = FALSE, !.fwPings = 0, !.refused = 0,
                              !.frontPinged = FALSE, !.drove = FALSE,
                              !.pushCmd = FALSE, !.scanStarted = FALSE,
                              !.pursuitWallBefore = m.h.pursuitWall,
                              !.stateTimer0 = IF firmware = "territory" THEN 0
                                              ELSE m.robot.stateTimer,
                              !.timers0 = TimersOf(m.threat),
                              !.before = NoFw, !.after = NoFw,
                              !.scanPing = NoFw, !.confirmed = FALSE,
                              !.shove0 = IF firmware = "territory" THEN m.fw.shove
                                         ELSE NoFw,
                              !.line0 = IF firmware = "territory"
                                        THEN [t |-> m.robot.stateTimer,
                                              ret |-> m.fw.returnState]
                                        ELSE NoFw,
                              !.scan0 = IF firmware = "territory"
                                        THEN [mode |-> m.scan.mode, idx |-> m.scan.idx,
                                              requestedFull |-> m.scan.requestedFull,
                                              fullHist |-> m.scan.fullHist,
                                              fullHistIdx |-> m.scan.fullHistIdx]
                                        ELSE NoFw,
                              !.idxPings = IF firmware = "territory"
                                              /\ m.h.scan0 # NoFw
                                              /\ m.h.scan0.mode = "full"
                                              /\ m.scan.idx = m.h.scan0.idx + 1
                                           THEN 0 ELSE @]]

\* robot.js 280-285: Robot.update up to the firmware call
Sense(m, d) == SensorUpdate(ServoUpdate(m, d), d)

EndFrameThreat(m) ==
  [m EXCEPT !.h.dist = m.us.lastVal,
            !.h.layCalls = IF m.robot.state = "CALMING" /\ m.h.startState # "CALMING"
                           THEN 0 ELSE @]

EndFrameTerritory(m, d) ==
  LET pursuing == m.robot.state \in {"SHOVE", "BLOCK"}
  IN  [m EXCEPT !.h.dist = m.us.lastVal,
                !.h.quiet = @ /\ m.world = "empty" /\ ~m.h.line,
                !.h.goneT = IF m.world = "empty" /\ ~m.h.line
                            THEN Min2(@ + d, BLOCK_FAR_T) ELSE 0,
                !.h.scanElapsed = IF m.scan.mode # "full" THEN 0
                                  ELSE IF m.h.scanStarted THEN 0 ELSE @ + d,
                !.h.pursuitWall =
                   /\ pursuing
                   /\ m.h.startState \in {"SHOVE", "BLOCK"}
                   /\ (@ \/ (m.h.classified /\ m.scan.targetIsWall))]

FrameBasic(m, d, w) ==
  EndFrameThreat(updateBehaviorBasic(Sense(BeginFrame(m, w, FALSE), d), d))

FrameRing(m, d, w) ==
  EndFrameThreat(updateBehaviorRing(Sense(BeginFrame(m, w, FALSE), d), d))

FrameProbing(m, d, w) ==
  EndFrameThreat(updateBehaviorProbing(Sense(BeginFrame(m, w, FALSE), d), d))

FrameTerritory(m, d, w, line) ==
  EndFrameTerritory(updateBehavior(Sense(BeginFrame(m, w, line), d), d, line), d)

\* The visitor moves, or the robot reaches the line, between frames: at most
\* MaxEvents such events in a run.
WorldStep(w, line) ==
  LET n == (IF w # world THEN 1 ELSE 0) + (IF line THEN 1 ELSE 0)
  IN  /\ events + n <= MaxEvents
      /\ events' = events + n

\* robot.js 210-277: the constructor
Robot0 ==
  [state |-> "PATROL", stateTimer |-> 0, safeTimer |-> 0,
   nClutches |-> 0, activeClutchIdx |-> -1, clutchesThisCycle |-> 0,
   layingStep |-> 0, layingSubTimer |-> 0, layingEggTimer |-> 0,
   layingEggsLeft |-> 0, lungePhase |-> "null", lungeTimer |-> 0,
   lungeDriveTime |-> 0, calmTimer |-> 0, didPostCalmLay |-> FALSE,
   isBuzzing |-> FALSE, jitterTimer |-> 0, percept |-> "empty",
   hasLungeTarget |-> FALSE, hasJitterTarget |-> FALSE,
   pwmLeft |-> 0, pwmRight |-> 0]

\* The threat firmwares' STATE has no PATROL: the constructor's STATE.PATROL
\* is undefined there.
RobotThreat0 == [Robot0 EXCEPT !.state = "undefined"]

Servo0 == [angle |-> 0, target |-> 0, timeSinceMove |-> 599400]

Ultrasonic0 == [lastVal |-> INF, timer |-> 0, seq |-> 0, sincePing |-> INF,
                hasEnv |-> FALSE]

ThreatProbing0 ==
  [sampleTimer |-> 0, ring |-> [i \in 1 .. RING_N_PROBE |-> INF], ringIdx |-> 0,
   ringCount |-> 0, phase |-> "idle", cooldown |-> 0, wallAvoid |-> 0, suspect |-> 0,
   probeTimer |-> 0, probeToggleTimer |-> 0, probeSampleTimer |-> 0, probeDir |-> 1,
   probeSamples |-> 0, probeInf |-> 0, probeMin |-> INF, probeMax |-> 0,
   probeLastFinite |-> NullDist, probeAbsDerivSum |-> 0]

ThreatRing0 ==
  [cooldown |-> 0, sampleTimer |-> 0, ring |-> [i \in 1 .. RING_N_RING |-> INF],
   ringIdx |-> 0, ringCount |-> 0]

Obs0 ==
  [startState |-> "none", line |-> FALSE, dist |-> INF,
   layCalls |-> 0, near |-> FALSE, cooldownSeen |-> 0, pushed |-> FALSE,
   windowN |-> 0, verdict |-> "none", enterAggr |-> FALSE, override |-> FALSE,
   threw |-> FALSE, classified |-> FALSE, fwPings |-> 0, refused |-> 0,
   frontPinged |-> FALSE, drove |-> FALSE, pushCmd |-> FALSE,
   scanStarted |-> FALSE, scanElapsed |-> 0, quiet |-> TRUE,
   pursuitWall |-> FALSE, pursuitWallBefore |-> FALSE,
   stateTimer0 |-> 0, timers0 |-> NoFw, goneT |-> 0,
   sensor |-> [seq0 |-> 0, val0 |-> INF, accDt |-> 0, gap |-> 0, hit |-> INF,
               byFirmware |-> FALSE],
   before |-> NoFw, after |-> NoFw, twin |-> NoFw, sameInputs |-> FALSE,
   scanPing |-> NoFw, armedT |-> -1, scanned |-> FALSE, confirmed |-> FALSE,
   shove0 |-> NoFw, line0 |-> NoFw, scan0 |-> NoFw, idxPings |-> 0,
   sincePush |-> -1, pushGap |-> -1]

InitThreat ==
  /\ firmware \in {"basic", "ring", "probing"}
  /\ dt \in DTsThreat
  /\ world \in WorldsThreat
  /\ ticks = 0
  /\ events = 0
  /\ rng = 1
  /\ robot = RobotThreat0
  /\ fw \in IF firmware = "basic" THEN {[arrives |-> b] : b \in BOOLEAN} ELSE {NoFw}
  /\ scan = NoFw
  /\ threat = IF firmware = "probing" THEN ThreatProbing0 ELSE ThreatRing0
  /\ servo = Servo0
  /\ ultrasonic = Ultrasonic0
  /\ obs = Obs0

TickBasic ==
  /\ firmware = "basic"
  /\ ticks < MaxTicksThreat
  /\ \E w \in WorldsThreat :
       /\ WorldStep(w, FALSE)
       /\ Unpack(FrameBasic(Pack, dt, w))
  /\ ticks' = ticks + 1
  /\ UNCHANGED <<firmware, dt>>

TickRing ==
  /\ firmware = "ring"
  /\ ticks < MaxTicksThreat
  /\ \E w \in WorldsThreat :
       /\ WorldStep(w, FALSE)
       /\ Unpack(FrameRing(Pack, dt, w))
  /\ ticks' = ticks + 1
  /\ UNCHANGED <<firmware, dt>>

TickProbing ==
  /\ firmware = "probing"
  /\ ticks < MaxTicksThreat
  /\ \E w \in WorldsThreat :
       /\ WorldStep(w, FALSE)
       /\ Unpack(FrameProbing(Pack, dt, w))
  /\ ticks' = ticks + 1
  /\ UNCHANGED <<firmware, dt>>

NextThreat == TickBasic \/ TickRing \/ TickProbing

SpecThreat == InitThreat /\ [][NextThreat]_vars

----------------------------------------------------------------------------
(* The territory firmware's runs.  scan.lastFrontAt starts at -999 s and   *)
(* counts only the time outside full scans, so the first front ping comes  *)
(* after some 999 s of patrol.  FastForward takes a run of consecutive     *)
(* frames with nothing changing around the robot as one step.              *)

\* 2^k consecutive frames with the scene as it is and no line under the robot.
\* The test makes the first half's result a value before the second half
\* starts from it.
RECURSIVE QuietFrames(_, _)
QuietFrames(m, k) ==
  IF k = 0 THEN FrameTerritory(m, dt, m.world, FALSE)
  ELSE LET x == QuietFrames(m, k - 1)
       IN  IF x.robot.stateTimer >= 0 THEN QuietFrames(x, k - 1) ELSE x

\* The sizes of the fast-forward steps: 2^k frames for k in FastSizes.
FastSizes == {4, 7}

\* scan.lastFrontAt gains at most dt a frame: 2^k more frames leave it below
\* 0, so none of them pings ahead.
StaysCold(k) == scan.lastFrontAt + (2 ^ k) * dt < 0

\* A full scan that has run for longer than MaxScanTime is not waited for.
Stalled == obs.scanElapsed > MaxScanTime

CanFastForward ==
  /\ ticks = 0
  /\ events = 0
  /\ ~Stalled
  /\ \E k \in FastSizes : StaysCold(k)

InitTerritory ==
  /\ firmware = "territory"
  /\ dt \in DTsTerritory
  /\ world \in WorldsTerritory
  /\ ticks = 0
  /\ events = 0
  /\ rng = 1
  /\ robot = Robot0
  /\ fw = Fw0
  /\ scan = Scan0
  /\ threat = NoFw
  /\ servo = Servo0
  /\ ultrasonic = Ultrasonic0
  /\ obs = Obs0

\* A run is followed frame by frame from power-on, or from the end of the
\* fast-forwarded patrol.
TickTerritory ==
  /\ ticks < MaxTicksTerritory
  /\ obs.startState = "none" \/ ~CanFastForward
  /\ \E w \in WorldsTerritory, line \in BOOLEAN :
       /\ WorldStep(w, line)
       /\ Unpack(FrameTerritory(Pack, dt, w, line))
  /\ ticks' = ticks + 1
  /\ UNCHANGED <<firmware, dt>>

\* The largest step of FastSizes that stays cold.
FastForward ==
  /\ CanFastForward
  /\ \E k \in FastSizes :
       /\ StaysCold(k)
       /\ \A j \in FastSizes : StaysCold(j) => j <= k
       /\ Unpack(QuietFrames(Pack, k))
  /\ UNCHANGED <<firmware, dt, ticks, events>>

NextTerritory == TickTerritory \/ FastForward

SpecTerritory == InitTerritory /\ [][NextTerritory]_vars

----------------------------------------------------------------------------
(* Scan completion on given readings.  _applyAngleMedianFilter and          *)
(* _classifyTargetFromScan are functions of scan.raw, the 13 averaged       *)
(* readings of a full scan.  A run starts where the first full scan after   *)
(* power-on is about to complete (scan.idx = 13), with the scene's returns  *)
(* at the 13 angles drawn from RawScans, and is followed frame by frame.    *)

MaxTicksScan == 40
MaxScanFrames == 128
DTsScan == {23}
ScanBases == {40, 90, 99}
ScanReturns == {30, 60, 99}

\* Near-constant returns: ramps of 0, 1 or 2 cm per angle, and a 7 cm ripple.
FlatScans ==
  {[i \in 1 .. 13 |-> b + st * (i - 1)] : b \in ScanBases, st \in 0 .. 2}
    \cup {[i \in 1 .. 13 |-> b + 7 * (i % 2)] : b \in ScanBases}

\* One close return at a single angle, no echo elsewhere.
SpikeScans ==
  {[i \in 1 .. 13 |-> IF i = k THEN c ELSE ULTRASONIC_NO_ECHO_CM] :
     k \in 1 .. 13, c \in ScanReturns}

\* A close return over three neighbouring angles, no echo elsewhere.
WideScans ==
  {[i \in 1 .. 13 |-> IF Abs(i - k) <= 1 THEN c ELSE ULTRASONIC_NO_ECHO_CM] :
     k \in 1 .. 13, c \in ScanReturns}

RawScans == FlatScans \cup SpikeScans \cup WideScans

Boot(w) ==
  [robot |-> Robot0, fw |-> Fw0, scan |-> Scan0, threat |-> NoFw, servo |-> Servo0,
   us |-> Ultrasonic0, rng |-> 1, world |-> w, h |-> Obs0]

ScanEnding(m) == m.scan.mode = "full" /\ m.scan.idx >= 13

\* One frame of the main loop; with toScanEnd, none once the scan has its 13
\* readings
FrameStep(m, d, toScanEnd) ==
  IF toScanEnd /\ ScanEnding(m) THEN m ELSE FrameTerritory(m, d, m.world, FALSE)

\* n consecutive frames, computed half by half
RECURSIVE RunFrames(_, _, _, _)
RunFrames(m, d, n, toScanEnd) ==
  IF n = 0 THEN m
  ELSE IF n = 1 THEN FrameStep(m, d, toScanEnd)
  ELSE CHOOSE end \in {RunFrames(half, d, n - (n \div 2), toScanEnd) :
                         half \in {RunFrames(m, d, n \div 2, toScanEnd)}} : TRUE

RunToScanEnd(m, d) == RunFrames(m, d, MaxScanFrames, TRUE)

StartFrom(m) ==
  /\ robot = m.robot
  /\ fw = m.fw
  /\ scan = m.scan
  /\ threat = m.threat
  /\ servo = m.servo
  /\ ultrasonic = m.us
  /\ rng = m.rng
  /\ world = m.world
  /\ obs = m.h

InitScan ==
  /\ firmware = "territory"
  /\ dt \in DTsScan
  /\ ticks = 0
  /\ events = 0
  /\ \E start \in {RunToScanEnd(Boot("empty"), dt)} :
       /\ ScanEnding(start)
       /\ \E r \in RawScans : StartFrom([start EXCEPT !.scan.raw = r])

TickScan ==
  /\ ticks < MaxTicksScan
  /\ \E line \in BOOLEAN :
       /\ WorldStep(world, line)
       /\ Unpack(FrameTerritory(Pack, dt, world, line))
  /\ ticks' = ticks + 1
  /\ UNCHANGED <<firmware, dt>>

NextScan == TickScan

SpecScan == InitScan /\ [][NextScan]_vars

\* Readings that all lie within a band narrower than width / all below limit /
\* all no echo except at angle k.
WithinBand(raw, width) == \A i, j \in DOMAIN raw : raw[i] - raw[j] < width
AllBelow(raw, limit) == \A i \in DOMAIN raw : raw[i] < limit
OnlyReturnAt(raw, k) == \A i \in DOMAIN raw : i # k => raw[i] = ULTRASONIC_NO_ECHO_CM

\* A scan whose readings at -a and +a degrees are equal for every angle a.
Symmetric(filtered) ==
  /\ filtered # << >>
  /\ \A i \in 1 .. 13 : filtered[i] = filtered[14 - i]

\* The wheel command of the turn phase of LINE_AVOID and of PANIC: no forward
\* speed, the wheels driven against each other.
Turning ==
  /\ robot.state \in {"LINE_AVOID", "PANIC"}
  /\ robot.pwmRight # 0
  /\ robot.pwmLeft = -robot.pwmRight

\* The directions the turn can take on a given scan, over the values
\* Math.random can return: the code draws none for it.
TurnDirs(filtered) == {OpenSide(filtered) : r \in DOMAIN RandSeq}

\* The entry of fullHist written by the last classification.
LastFullHist == scan.fullHist[((scan.fullHistIdx + 2) % 3) + 1]

\* The scan angles (1-based indices) within [-40, 40] degrees.
FrontSector == {i \in 1 .. 13 : scanAnglesDeg[i] >= -40 /\ scanAnglesDeg[i] <= 40}

----------------------------------------------------------------------------
(* The target vanishes: the legs stand in front of the robot from power-on, *)
(* the line sensor is silent, and at some frame the legs leave for good     *)
(* (the one event of the run).                                              *)

MaxTicksVanish == 380
DTsVanish == {23}
WorldsVanish == {"legs", "empty"}

InitVanish ==
  /\ firmware = "territory"
  /\ dt \in DTsVanish
  /\ ticks = 0
  /\ events = 0
  /\ StartFrom(Boot("legs"))

TickVanish ==
  /\ ticks < MaxTicksVanish
  /\ obs.startState = "none" \/ ~CanFastForward
  /\ \E w \in WorldsVanish :
       /\ WorldStep(w, FALSE)
       /\ Unpack(FrameTerritory(Pack, dt, w, FALSE))
  /\ ticks' = ticks + 1
  /\ UNCHANGED <<firmware, dt>>

NextVanish == TickVanish \/ FastForward

SpecVanish == InitVanish /\ [][NextVanish]_vars

-----------------------------------------------------------------------------
(* The scene changes twice: the legs stand in front of the robot from       *)
(* power-on, the visitor then leaves the robot facing a wall, and later     *)
(* steps close to it.  The line sensor is silent.  events is the number of  *)
(* changes made so far, the index of the scene in Scenes less one.          *)

MaxTicksScene == 480
DTsScene == {23}
Scenes == <<"legs", "wall", "near">>

InitScene ==
  /\ firmware = "territory"
  /\ dt \in DTsScene
  /\ ticks = 0
  /\ events = 0
  /\ StartFrom(Boot(Scenes[1]))

\* The run is followed frame by frame from the end of the fast-forwarded patrol.
TickScene ==
  /\ ticks < MaxTicksScene
  /\ ~CanFastForward
  /\ \E n \in {events, events + 1} :
       /\ n < Len(Scenes)
       /\ events' = n
       /\ Unpack(FrameTerritory(Pack, dt, Scenes[n + 1], FALSE))
  /\ ticks' = ticks + 1
  /\ UNCHANGED <<firmware, dt>>

NextScene == TickScene \/ FastForward

SpecScene == InitScene /\ [][NextScene]_vars

-----------------------------------------------------------------------------
(* A visitor arrives or leaves: the scene ahead is empty or holds the legs  *)
(* from power-on, the line sensor is silent, and the scene changes at most  *)
(* once (MaxEvents) while the robot acquires its target.                    *)

MaxTicksArrive == 130
DTsArrive == {23}
WorldsArrive == {"empty", "legs", "wall"}

InitArrive ==
  /\ firmware = "territory"
  /\ dt \in DTsArrive
  /\ ticks = 0
  /\ events = 0
  /\ \E w \in {"empty", "legs"} : StartFrom(Boot(w))

\* The run is followed frame by frame from the end of the fast-forwarded patrol.
TickArrive ==
  /\ ticks < MaxTicksArrive
  /\ ~CanFastForward
  /\ \E w \in WorldsArrive :
       /\ WorldStep(w, FALSE)
       /\ Unpack(FrameTerritory(Pack, dt, w, FALSE))
  /\ ticks' = ticks + 1
  /\ UNCHANGED <<firmware, dt>>

NextArrive == TickArrive \/ FastForward

SpecArrive == InitArrive /\ [][NextArrive]_vars

-----------------------------------------------------------------------------
(* The line under the robot: the legs stand in front of the robot from      *)
(* power-on and stay, and the line sensor answers true on at most MaxLines  *)
(* frames of the run, consecutive or not (events counts them).              *)

MaxTicksLine == 200
MaxLines == 2
DTsLine == {23}

InitLine ==
  /\ firmware = "territory"
  /\ dt \in DTsLine
  /\ ticks = 0
  /\ events = 0
  /\ StartFrom(Boot("legs"))

\* The run is followed frame by frame from the end of the fast-forwarded patrol.
TickLine ==
  /\ ticks < MaxTicksLine
  /\ ~CanFastForward
  /\ \E line \in BOOLEAN :
       /\ events' = events + (IF line THEN 1 ELSE 0)
       /\ events' <= MaxLines
       /\ Unpack(FrameTerritory(Pack, dt, world, line))
  /\ ticks' = ticks + 1
  /\ UNCHANGED <<firmware, dt>>

NextLine == TickLine \/ FastForward

SpecLine == InitLine /\ [][NextLine]_vars

----------------------------------------------------------------------------
(* Replay: two runs of the territory firmware from the same initial robot,  *)
(* fed the same dt, line-sensor answers and Math.random draws.  The first   *)
(* run sees a scene in which legs may appear; the second (obs.twin) always  *)
(* sees the empty scene.  obs.sameInputs says that so far every frame left  *)
(* the two sensors with the same reading and the same ping count.           *)

MaxTicksReplay == 100
DTsReplay == {23}
WorldsReplay == {"empty", "legs"}

TwinOf(m) ==
  [robot |-> m.robot, fw |-> m.fw, scan |-> m.scan, servo |-> m.servo, us |-> m.us,
   rng |-> m.rng]

TwinRun(t) ==
  [robot |-> t.robot, fw |-> t.fw, scan |-> t.scan, threat |-> NoFw, servo |-> t.servo,
   us |-> t.us, rng |-> t.rng, world |-> "empty", h |-> Obs0]

\* The two frames side by side: a is the first run's, b the second's.
Paired(a, b, same) ==
  [a EXCEPT !.h.twin = TwinOf(b),
            !.h.sameInputs = /\ same
                             /\ a.us.lastVal = b.us.lastVal
                             /\ a.us.seq = b.us.seq]

InitReplay ==
  /\ firmware = "territory"
  /\ dt \in DTsReplay
  /\ ticks = 0
  /\ events = 0
  /\ StartFrom([Boot("empty") EXCEPT !.h.twin = TwinOf(Boot("empty")),
                                     !.h.sameInputs = TRUE])

TickReplay ==
  /\ ticks < MaxTicksReplay
  /\ \E w \in WorldsReplay, line \in BOOLEAN :
       /\ WorldStep(w, line)
       /\ Unpack(Paired(FrameTerritory(Pack, dt, w, line),
                        FrameTerritory(TwinRun(obs.twin), dt, "empty", line),
                        obs.sameInputs))
  /\ ticks' = ticks + 1
  /\ UNCHANGED <<firmware, dt>>

NextReplay == TickReplay

SpecReplay == InitReplay /\ [][NextReplay]_vars

----------------------------------------------------------------------------
(* The ultrasonic sensor on its own: Robot.update steps the servo and the   *)
(* sensor each frame, and between frames' updates the firmware moves the    *)
(* servo and calls ping().  What the ray casts find (SensorHits, cm) and    *)
(* the noise drawn (SensorNoises, cm) are inputs of every ping.             *)

MaxTicksSensor == 5
DTsSensor == {10, 23, 60}
SensorHits == {0, 1, 150, 299, 300, 301, INF}
SensorNoises == (-ULTRASONIC_NOISE) .. (ULTRASONIC_NOISE - 1)
ServoTargets == {-60, 0, 30}

\* What one call did to the sensor: m0 before, m1 after, d the dt that
\* update() added, best the nearest hit offered.  accDt is the dt accumulated
\* by update() since the last accepted ping, gap its value when the last
\* accepted ping was taken.
ObserveSensor(m0, m1, d, best, byFw) ==
  LET acc == m0.h.sensor.accDt + d
      accepted == m1.us.seq # m0.us.seq
  IN  [m1 EXCEPT !.h.sensor =
         [seq0 |-> m0.us.seq, val0 |-> m0.us.lastVal,
          accDt |-> IF accepted THEN 0 ELSE acc,
          gap |-> IF accepted THEN acc ELSE m0.h.sensor.gap,
          hit |-> IF accepted THEN best ELSE m0.h.sensor.hit,
          byFirmware |-> byFw]]

InitSensor ==
  /\ firmware = "sensor"
  /\ dt \in DTsSensor
  /\ ticks = 0
  /\ events = 0
  /\ StartFrom([Boot("empty") EXCEPT !.fw = NoFw, !.scan = NoFw])

\* robot.js 280-285: servo.update(dt), ultrasonic.update(dt, legsPos, obstacles)
SensorFrame ==
  /\ ticks < MaxTicksSensor
  /\ \E best \in SensorHits, noise \in SensorNoises :
       Unpack(ObserveSensor(Pack,
                            SensorUpdateWith(ServoUpdate(Pack, dt), dt, best, noise),
                            dt, best, FALSE))
  /\ ticks' = ticks + 1
  /\ UNCHANGED <<firmware, dt, events>>

\* The firmware's robot.ultrasonic.ping()
FirmwarePing ==
  /\ \E best \in SensorHits, noise \in SensorNoises :
       Unpack(ObserveSensor(Pack, SensorPingWith(Pack, best, noise), 0, best, TRUE))
  /\ UNCHANGED <<firmware, dt, ticks, events>>

\* The firmware's robot.servo.setTargetDeg(deg)
ServoCommand ==
  /\ \E deg \in ServoTargets : servo' = ServoSetTargetDeg(Pack, deg).servo
  /\ UNCHANGED <<firmware, dt, world, ticks, events, rng, robot, fw, scan, threat,
                 ultrasonic, obs>>

NextSensor == SensorFrame \/ FirmwarePing \/ ServoCommand

SpecSensor == InitSensor /\ [][NextSensor]_vars

\* The last call took a reading (seq moved).
PingTaken == ultrasonic.seq # obs.sensor.seq0

----------------------------------------------------------------------------
(* C1: ring-buffer firmware - while threat.cooldown is above zero, a tick  *)
(* that reads a near surface and does not start in AGGRESSION does not end *)
(* in AGGRESSION, whatever state the robot is in.  The code breaks this in *)
(* GUARD and CALMING, which enter AGGRESSION on the raw near reading.      *)
C1_CooldownSuppressesAggression ==
  (firmware = "ring" /\ ticks > 0 /\ obs.near /\ obs.cooldownSeen > 0
     /\ obs.startState # "AGGRESSION")
    => robot.state # "AGGRESSION"

(* C3: ring-buffer and probing firmware - _updateThreatClassifier returns  *)
(* enterAggression = true only on a tick whose current measurement is      *)
(* finite and below NEAR_DIST; a no-echo reading never produces it,        *)
(* whatever the buffer holds.  obs.dist is the measurement the tick read.  *)
C3_EnterAggressionOnlyNear ==
  (firmware \in {"ring", "probing"} /\ obs.enterAggr)
    => (IsFinite(obs.dist) /\ obs.dist < WAKE_DIST_FROM_BOUNDARY)

\* The probing classifier fires on a near reading while its ring holds dropouts.
C3_Witness ==
  /\ firmware = "probing"
  /\ obs.enterAggr
  /\ obs.override = FALSE
  /\ \E i \in 1 .. threat.ringCount : threat.ring[i] = INF
  /\ obs.dist < WAKE_DIST_FROM_BOUNDARY

(* C5: basic and ring-buffer firmware - layPostCalmClutch is invoked at    *)
(* most once in any CALMING visit, and exactly once in a visit that ends   *)
(* with the transition to IDLE_SAFE, whatever the number and size of the   *)
(* ticks.  obs.layCalls counts the invocations since CALMING was entered.  *)
C5_PostCalmLayOnce ==
  firmware \in {"basic", "ring"} =>
    /\ obs.layCalls <= 1
    /\ (ticks > 0 /\ obs.startState = "CALMING" /\ robot.state = "IDLE_SAFE")
         => obs.layCalls = 1

\* A CALMING visit that one tick of 63 s carries past CALM_WAIT + 2.
C5_Witness ==
  /\ firmware \in {"basic", "ring"}
  /\ dt > CALM_WAIT + CALM_EXTRA
  /\ obs.startState = "CALMING"
  /\ robot.state = "IDLE_SAFE"
  /\ obs.layCalls = 1

(* C2: territory firmware - a missing echo is read as                      *)
(* ULTRASONIC_NO_ECHO_CM (300 cm), above every trigger threshold: while    *)
(* every ping has found nothing and the line sensor has not fired, every   *)
(* distance the firmware holds is 300 cm, the robot is in PATROL, and no   *)
(* scan has been classified as wall or legs.  obs.quiet says that every    *)
(* frame so far saw the empty scene and no line.                           *)
C2_NoEchoStaysPatrol ==
  (firmware = "territory" /\ obs.quiet) =>
    /\ robot.state = "PATROL"
    /\ robot.percept \notin {"wall", "legs"}
    /\ ~scan.targetIsWall
    /\ scan.targetCm = ULTRASONIC_NO_ECHO_CM
    /\ scan.frontCm = ULTRASONIC_NO_ECHO_CM
    /\ \A i \in DOMAIN scan.raw : scan.raw[i] = ULTRASONIC_NO_ECHO_CM
    /\ \A i \in DOMAIN scan.fullHist : ~scan.fullHist[i]
    /\ \A i \in DOMAIN scan.frontHist : ~scan.frontHist[i]

\* A front ping answered by no echo, after a full scan of the empty scene was
\* classified.
C2_Witness ==
  /\ firmware = "territory"
  /\ obs.quiet
  /\ obs.frontPinged
  /\ scan.filtered # << >>
  /\ scan.fullHistIdx > 0

(* C4: territory firmware - PANIC ends within its nominal duration: once   *)
(* the dt accumulated since PANIC was entered (robot.stateTimer) has       *)
(* reached 0.05 + 0.4 + 0.5 + 2.0 s and one further tick, the robot is no  *)
(* longer in PANIC.  The code restarts its phase timer at every phase      *)
(* change, so each of the four phases can overrun by up to a tick.         *)
C4_PanicEndsAfterNominal ==
  (firmware = "territory" /\ robot.state = "PANIC") =>
    robot.stateTimer
      < PANIC_STOP_T + PANIC_REVERSE_T + PANIC_TURN_T + PANIC_COOLDOWN_T + dt

(* C6: territory firmware - line avoidance has absolute priority: a tick   *)
(* on which the line sensor fires and that does not start in LINE_AVOID    *)
(* ends in LINE_AVOID with wheel command (0, 0), stateTimer = 0 and        *)
(* fw.returnState = the state the tick started in, whatever the distances. *)
C6_LinePriority ==
  (firmware = "territory" /\ obs.line /\ obs.startState # "LINE_AVOID") =>
    /\ robot.state = "LINE_AVOID"
    /\ robot.pwmLeft = 0
    /\ robot.pwmRight = 0
    /\ robot.stateTimer = 0
    /\ fw.returnState = obs.startState

\* The line fires on a tick that starts in SHOVE or BLOCK with the target
\* closer than D_PANIC.
C6_Witness ==
  /\ firmware = "territory"
  /\ obs.line
  /\ obs.startState \in {"SHOVE", "BLOCK"}
  /\ Min2(scan.targetCm, scan.frontCm) < D_PANIC
  /\ robot.state = "LINE_AVOID"

(* C7: territory firmware - robot.state is always one of the seven STATE   *)
(* values, and a tick that ends in another state than it started in ends   *)
(* with robot.stateTimer = 0, since every change of state goes through     *)
(* enter().                                                                *)
C7_StateChangeResetsTimer ==
  firmware = "territory" =>
    /\ robot.state \in {"PATROL", "ACQUIRE", "SHOVE", "BLOCK", "LINE_AVOID",
                        "PANIC", "RECOVER"}
    /\ (obs.startState # robot.state) => robot.stateTimer = 0

\* PANIC entered from SHOVE, without the line sensor.
C7_Witness ==
  /\ firmware = "territory"
  /\ ~obs.line
  /\ obs.startState = "SHOVE"
  /\ robot.state = "PANIC"
  /\ robot.stateTimer = 0

(* C8: territory firmware - enter() resets the timers and counters of the  *)
(* state it enters: a tick that enters PATROL ends with patrolWiggleT and  *)
(* patrolWiggleRem reset, one that enters SHOVE with its phase, cycle, far *)
(* and close-persist timers reset, one that enters BLOCK with its lunge    *)
(* and far timers reset, one that enters PANIC with its phase timer and    *)
(* cooldown reset.  enter(PATROL) only requests a scan.                    *)
C8_EnterResetsTimers ==
  (firmware = "territory" /\ obs.startState \notin {"none", robot.state}) =>
    /\ robot.state = "PATROL" =>
          fw.patrolWiggleT = 0 /\ fw.patrolWiggleRem = 0
    /\ robot.state = "SHOVE" =>
          /\ fw.shove.phase = "PUSH"
          /\ fw.shove.phaseT = 0
          /\ fw.shove.cyclesDone = 0
          /\ fw.shove.farT = 0
          /\ fw.shove.closePersistT = 0
    /\ robot.state = "BLOCK" => fw.block.farT = 0 /\ fw.block.lungeRem = 0
    /\ robot.state = "PANIC" =>
          fw.panic.phase = "STOP" /\ fw.panic.t = 0 /\ fw.panic.cooldown = 0

(* C9: territory firmware - a wall signature found during pursuit diverts  *)
(* the robot: after a full scan that completed while the robot was in      *)
(* SHOVE or BLOCK set scan.targetIsWall, the robot gives no forward push   *)
(* command and leaves SHOVE / BLOCK.  obs.pursuitWallBefore says that such *)
(* a scan completed on an earlier tick of this pursuit.  SHOVE and BLOCK   *)
(* never read scan.targetIsWall.                                           *)
C9_WallDivertsPursuit ==
  (firmware = "territory" /\ obs.pursuitWallBefore) =>
    /\ ~obs.pushCmd
    /\ robot.state \notin {"SHOVE", "BLOCK"}

(* C10: territory firmware - a full scan is bounded in time: scan.mode is  *)
(* back to "idle" within MaxScanTime of accumulated dt after the scan      *)
(* started, even when the sensor refuses every ping.  _updateFullScan has  *)
(* no time cap: it waits for an accepted ping.                             *)
C10_FullScanBounded ==
  (firmware = "territory" /\ scan.mode = "full") => obs.scanElapsed <= MaxScanTime

(* C11: ring-buffer firmware - the classifier never decides on a starved   *)
(* buffer: on a tick whose scan window holds fewer than 4 samples,         *)
(* _updateThreatClassifier does not return enterAggression = true, gives   *)
(* no wall verdict and does not raise threat.cooldown.  obs.windowN is     *)
(* threat.ringCount when the classifier reads it, obs.cooldownSeen the     *)
(* cooldown after the tick's countdown.                                    *)
C11_NoDecisionOnStarvedBuffer ==
  (firmware = "ring" /\ ticks > 0 /\ obs.windowN < RING_MIN_SAMPLES) =>
    /\ ~obs.enterAggr
    /\ obs.verdict = "none"
    /\ threat.cooldown = obs.cooldownSeen

\* A near reading with the cooldown at zero and one to three samples held:
\* the classifier reaches _scanStats and gets null.
C11_Witness ==
  /\ firmware = "ring"
  /\ obs.near
  /\ obs.pushed
  /\ obs.cooldownSeen = 0
  /\ obs.startState # "AGGRESSION"
  /\ obs.windowN \in 1 .. (RING_MIN_SAMPLES - 1)
  /\ robot.percept = "scanning"

(* C12: ring-buffer firmware - threat.cooldown is a monotonic countdown:   *)
(* it is never negative; every tick, in every state (AGGRESSION too),      *)
(* lowers it by dt, floored at 0 (obs.timers0 holds it as the tick found   *)
(* it, obs.cooldownSeen after the countdown); and the tick leaves it at    *)
(* the counted-down value unless the classifier gave the wall verdict,     *)
(* which sets it to COOLDOWN_DUR.                                          *)
C12_CooldownMonotonic ==
  (firmware = "ring" /\ ticks > 0) =>
    /\ threat.cooldown >= 0
    /\ obs.cooldownSeen = Max2(0, obs.timers0.cooldown - dt)
    /\ obs.verdict # "wall" => threat.cooldown = obs.cooldownSeen
    /\ obs.verdict = "wall" => threat.cooldown = COOLDOWN_DUR_RING

\* The cooldown counted down, but not out, by a tick spent in AGGRESSION.
C12_Witness ==
  /\ firmware = "ring"
  /\ obs.startState = "AGGRESSION"
  /\ obs.timers0.cooldown > 0
  /\ threat.cooldown > 0
  /\ threat.cooldown = obs.timers0.cooldown - dt

(* C13: probing firmware - updateBehavior never throws: every tick, from   *)
(* every reachable state, completes normally.  obs.threw says that the     *)
(* tick ended in an exception: GUARD and CALMING read legsPresent, which   *)
(* this firmware declares nowhere.                                         *)
C13_ProbingNeverThrows ==
  firmware = "probing" => ~obs.threw

(* C14: probing firmware - dt is clamped before use: in one tick no        *)
(* firmware timer (robot.stateTimer, threat.cooldown, wallAvoid, suspect,  *)
(* probeTimer, sampleTimer) advances by more than the clamp of 0.25 s.     *)
(* Only sampleTimer and probeSampleTimer are advanced by the clamped dt.   *)
C14_TimersAdvanceClamped ==
  (firmware = "probing" /\ ticks > 0) =>
    /\ robot.stateTimer - obs.stateTimer0 <= DT_SAMPLE_MAX
    /\ obs.timers0.cooldown - threat.cooldown <= DT_SAMPLE_MAX
    /\ obs.timers0.wallAvoid - threat.wallAvoid <= DT_SAMPLE_MAX
    /\ obs.timers0.suspect - threat.suspect <= DT_SAMPLE_MAX
    /\ threat.probeTimer - obs.timers0.probeTimer <= DT_SAMPLE_MAX
    /\ threat.sampleTimer - obs.timers0.sampleTimer <= DT_SAMPLE_MAX

(* C15: territory firmware - a completed full scan whose 13 averaged       *)
(* readings all lie within a band narrower than FLAT_T_CM and below        *)
(* D_DETECT is classified as a wall: scan.targetIsWall is set, the percept *)
(* is "wall" and false is pushed into fullHist.  obs.classified says that  *)
(* a full scan completed on this tick; scan.raw holds its readings.        *)
C15_FlatScanIsWall ==
  (firmware = "territory" /\ obs.classified
     /\ WithinBand(scan.raw, FLAT_T_CM) /\ AllBelow(scan.raw, D_DETECT)) =>
    /\ scan.targetIsWall
    /\ robot.percept = "wall"
    /\ ~LastFullHist

\* A scan of returns that differ (by up to 12 cm) is classified as a wall.
C15_Witness ==
  /\ firmware = "territory"
  /\ obs.classified
  /\ WithinBand(scan.raw, FLAT_T_CM)
  /\ AllBelow(scan.raw, D_DETECT)
  /\ ~WithinBand(scan.raw, 12)
  /\ scan.targetIsWall

(* C16: territory firmware - a completed full scan in which exactly one    *)
(* angle within [-40, 40] degrees returned a reading below D_DETECT and    *)
(* every other angle returned no echo is classified as a local object:     *)
(* percept "legs", scan.targetCm that reading, scan.targetThetaDeg that    *)
(* angle, scan.targetIsWall false, and true pushed into fullHist.  The     *)
(* median filter over neighbouring angles removes a single-angle return.   *)
C16_SingleReturnIsLegs ==
  \A k \in FrontSector :
    (firmware = "territory" /\ obs.classified
       /\ scan.raw[k] < D_DETECT /\ OnlyReturnAt(scan.raw, k)) =>
      /\ robot.percept = "legs"
      /\ scan.targetCm = scan.raw[k]
      /\ scan.targetThetaDeg = scanAnglesDeg[k]
      /\ ~scan.targetIsWall
      /\ LastFullHist

(* C17: territory firmware - SHOVE and BLOCK give up a vanished target:    *)
(* once every ping returns no echo and the line sensor is silent, the far  *)
(* timer runs (to 1.2 s in SHOVE, 2.0 s in BLOCK, then RECOVER).  Stated   *)
(* on one tick: the scene has been empty and the line silent for 2.0 s     *)
(* (obs.goneT), no scan is in progress, the tick's own front ping has just *)
(* returned no echo, and the robot stays in SHOVE or BLOCK - then its far  *)
(* timer is running.  The code takes min(scan.targetCm, scan.frontCm), and *)
(* scan.targetCm is the last full scan's.                                  *)
C17_VanishedTargetGivenUp ==
  (firmware = "territory" /\ obs.goneT >= BLOCK_FAR_T /\ obs.frontPinged
     /\ scan.frontCm = ULTRASONIC_NO_ECHO_CM /\ scan.mode = "idle"
     /\ obs.startState = robot.state) =>
    /\ robot.state = "SHOVE" => fw.shove.farT > 0
    /\ robot.state = "BLOCK" => fw.block.farT > 0

(* C18: territory firmware - symmetric readings are not biased to one      *)
(* side: when the last filtered scan is left/right symmetric, the turn of  *)
(* LINE_AVOID and of PANIC can go either way.  The code takes              *)
(* sumR >= sumL ? 1 : -1, with the reading at 0 degrees counted in sumR.   *)
C18_SymmetricTurnsEitherWay ==
  (firmware = "territory" /\ Turning /\ Symmetric(scan.filtered)) =>
    TurnDirs(scan.filtered) = {1, -1}

(* C19: every finite value of UltrasonicSensor.lastMeasurement lies within *)
(* [0, ULTRASONIC_RANGE], and a nearest hit beyond ULTRASONIC_RANGE yields *)
(* Infinity.  The code tests the range before it adds the noise.           *)
C19_MeasurementWithinRange ==
  firmware = "sensor" =>
    /\ IsFinite(ultrasonic.lastVal) =>
          (ultrasonic.lastVal >= 0 /\ ultrasonic.lastVal <= ULTRASONIC_RANGE)
    /\ (PingTaken /\ obs.sensor.hit > ULTRASONIC_RANGE) => ultrasonic.lastVal = INF

(* C20: the sensor refreshes its reading only when enough time has         *)
(* accumulated: between two accepted pings, whether update() or the        *)
(* firmware triggered them, update() has accumulated at least              *)
(* ULTRASONIC_PING_MIN_DT of dt; a call that takes no reading leaves       *)
(* lastMeasurement and seq as they were; an accepted ping raises seq by    *)
(* exactly 1.                                                              *)
C20_PingGating ==
  firmware = "sensor" =>
    /\ ultrasonic.seq \in {obs.sensor.seq0, obs.sensor.seq0 + 1}
    /\ (PingTaken /\ obs.sensor.seq0 > 0) => obs.sensor.gap >= ULTRASONIC_PING_MIN_DT
    /\ ~PingTaken => ultrasonic.lastVal = obs.sensor.val0

\* A ping of the firmware's, accepted between two pings of update(): the second
\* reading or a later one, taken sooner than the sensor's own interval.
C20_Witness ==
  /\ firmware = "sensor"
  /\ obs.sensor.byFirmware
  /\ PingTaken
  /\ obs.sensor.seq0 > 0
  /\ obs.sensor.gap < ULTRASONIC_INTERVAL
  /\ ultrasonic.lastVal # obs.sensor.val0

(* C21: territory firmware - a full scan starts from a cleared buffer and  *)
(* classification does not alter it.  On the tick a scan starts, scan.raw  *)
(* is all ULTRASONIC_NO_ECHO_CM, scan.idx is 0 and scan.filtered is null   *)
(* (the empty sequence).  On the tick a scan completes (obs.before and     *)
(* obs.after hold the scan and the robot around the completion), scan.raw  *)
(* is unchanged, filtered is the median filter of raw, and apart from      *)
(* the mode, filtered and lastFullAt that _updateFullScan itself writes,   *)
(* only targetCm, targetThetaDeg, targetIsWall, one slot of fullHist,      *)
(* fullHistIdx and percept differ.                                         *)
C21_ScanBufferClearedNotMutated ==
  firmware = "territory" =>
    /\ obs.scanStarted =>
          /\ scan.raw = [i \in 1 .. 13 |-> ULTRASONIC_NO_ECHO_CM]
          /\ scan.idx = 0
          /\ scan.filtered = << >>
    /\ obs.classified =>
          /\ scan.raw = obs.before.scan.raw
          /\ obs.after.scan.filtered = applyAngleMedianFilter(obs.before.scan.raw)
          /\ obs.after.scan =
                [obs.before.scan EXCEPT !.mode = "idle", !.lastFullAt = 0,
                                        !.filtered = obs.after.scan.filtered,
                                        !.targetCm = obs.after.scan.targetCm,
                                        !.targetThetaDeg = obs.after.scan.targetThetaDeg,
                                        !.targetIsWall = obs.after.scan.targetIsWall,
                                        !.fullHist = obs.after.scan.fullHist,
                                        !.fullHistIdx = obs.after.scan.fullHistIdx]
          /\ Cardinality({i \in 1 .. 3 : obs.after.scan.fullHist[i]
                                            # obs.before.scan.fullHist[i]}) <= 1
          /\ obs.after.robot = [obs.before.robot EXCEPT
                                  !.percept = obs.after.robot.percept]

\* A second scan starts after a completed one whose readings held a return.
C21_Witness ==
  /\ firmware = "territory"
  /\ obs.scanStarted
  /\ scan.targetCm < ULTRASONIC_NO_ECHO_CM
  /\ scan.raw = [i \in 1 .. 13 |-> ULTRASONIC_NO_ECHO_CM]

(* C22: basic firmware - walls and legs are indistinguishable: a tick that *)
(* starts in a state other than AGGRESSION and reads an ultrasonic         *)
(* measurement below WAKE_DIST_FROM_BOUNDARY ends in AGGRESSION, whatever  *)
(* the scene and whatever the state.                                       *)
C22_NearReadingMeansAggression ==
  (firmware = "basic" /\ ticks > 0 /\ obs.startState # "AGGRESSION" /\ obs.near) =>
    robot.state = "AGGRESSION"

\* A flat wall brings the retreating robot back to AGGRESSION.
C22_Witness ==
  /\ firmware = "basic"
  /\ world = "wall"
  /\ obs.startState = "RETREATING"
  /\ obs.near
  /\ robot.state = "AGGRESSION"

C24_ScanPingAtItsAngle ==
  (firmware = "territory" /\ DOMAIN obs.scanPing = {"at", "for"}) =>
    obs.scanPing.at = obs.scanPing.for

(* C25: territory firmware - ACQUIRE is transient: the robot leaves it, to *)
(* SHOVE when a non-wall target is confirmed and otherwise to PATROL once  *)
(* the 1.5 s timeout has passed; a wall that stays closer than D_DETECT    *)
(* cannot hold it in ACQUIRE.  Stated at the end of a frame: a robot in    *)
(* ACQUIRE whose last scan gave no non-wall target closer than D_DETECT    *)
(* has been there for at most twice the timeout.  The timeout is tested    *)
(* only while fewer than 3 of the last 5 front pings were closer than      *)
(* D_DETECT, and the pings of PANIC's cooldown and of ACQUIRE itself keep  *)
(* that count up.                                                          *)
C25_AcquireIsTransient ==
  (firmware = "territory" /\ robot.state = "ACQUIRE"
     /\ ~(scan.targetCm < D_DETECT /\ ~scan.targetIsWall)) =>
    robot.stateTimer <= 2 * ACQUIRE_TIMEOUT

(* C26: territory firmware - no shove during the cooldown after a panic:   *)
(* once PANIC's TURN phase has completed and armed the 2.0 s cooldown, the *)
(* robot does not enter SHOVE before 2.0 s of dt have accumulated,         *)
(* whatever the line sensor and the distance readings do.  obs.armedT is   *)
(* the dt accumulated by updateBehavior since the latest arming, -1 before *)
(* the first.  The cooldown is counted only in PANIC's COOLDOWN phase: a   *)
(* line detection there leads through LINE_AVOID (1.57 s) to PATROL.       *)
C26_NoShoveDuringCooldown ==
  (firmware = "territory" /\ robot.state = "SHOVE" /\ obs.startState # "SHOVE"
     /\ obs.armedT >= 0) =>
    obs.armedT >= PANIC_COOLDOWN_T

(* C27: territory firmware - entering PANIC stops the push at once: at the *)
(* end of the tick on which SHOVE or BLOCK finds the target too close      *)
(* (below D_PANIC, or at most D_SAFE in PUSH) and enters PANIC, the wheel  *)
(* command in effect has no forward component.  enter() writes no wheel    *)
(* command and the case breaks before _drive, so the command in effect is  *)
(* the one of the tick before.                                             *)
C27_PanicEntryNotForward ==
  (firmware = "territory" /\ robot.state = "PANIC" /\ obs.startState \in {"SHOVE", "BLOCK"}) =>
    robot.pwmLeft + robot.pwmRight <= 0

(* C28: territory firmware - SHOVE is entered from ACQUIRE only on the     *)
(* evidence of a completed scan: the robot is never in SHOVE before the    *)
(* first full scan has completed (obs.scanned), and at the end of a tick   *)
(* that went from ACQUIRE to SHOVE the latest scan result is a non-wall    *)
(* target closer than D_DETECT; when the tick decided without confirmation *)
(* (obs.confirmed: 2 of the last 3 full scans or 3 of the last 5 front     *)
(* pings, as counted before the switch) the target is closer than D_ENGAGE.*)
C28_ShoveOnScanEvidence ==
  (firmware = "territory" /\ robot.state = "SHOVE") =>
    /\ obs.scanned
    /\ obs.startState = "ACQUIRE" =>
         /\ ~scan.targetIsWall
         /\ scan.targetCm < D_DETECT
         /\ ~obs.confirmed => scan.targetCm < D_ENGAGE

C28_Witness ==
  /\ firmware = "territory"
  /\ robot.state = "SHOVE"
  /\ obs.startState = "ACQUIRE"
  /\ obs.scanned
  /\ ~obs.confirmed
  /\ scan.targetCm < D_ENGAGE

(* C29: territory firmware - SHOVE's phases.  On a tick that starts and    *)
(* ends in SHOVE (obs.shove0 is fw.shove at the start of the tick): the    *)
(* wheel command has a forward component only when the phase was and is    *)
(* PUSH, has lasted at most 0.7 s and dNow = min(targetCm, frontCm) is     *)
(* above D_HOLD + 10, and it is then V_PUSH; a tick in SNAP commands       *)
(* (0, 0) and a tick in PULL a reverse command; the phase stays or moves   *)
(* one step along PUSH -> SNAP -> PULL -> PUSH.  Whenever the robot is in  *)
(* SHOVE at the end of a tick, cyclesDone < cyclesTarget and cyclesTarget  *)
(* is one of 3..6.                                                         *)
ShoveCycle ==
  {<<"PUSH", "PUSH">>, <<"PUSH", "SNAP">>, <<"SNAP", "SNAP">>, <<"SNAP", "PULL">>,
   <<"PULL", "PULL">>, <<"PULL", "PUSH">>}

C29_ShovePhases ==
  (firmware = "territory" /\ robot.state = "SHOVE") =>
    /\ fw.shove.cyclesDone < fw.shove.cyclesTarget
    /\ fw.shove.cyclesTarget \in 3 .. 6
    /\ obs.startState = "SHOVE" =>
         /\ <<obs.shove0.phase, fw.shove.phase>> \in ShoveCycle
         /\ robot.pwmLeft + robot.pwmRight > 0 =>
              /\ obs.shove0.phase = "PUSH"
              /\ fw.shove.phase = "PUSH"
              /\ fw.shove.phaseT <= 420
              /\ Min2(scan.targetCm, scan.frontCm) > D_HOLD + 10
              /\ robot.pwmLeft + robot.pwmRight = 2 * V_PUSH
         /\ obs.shove0.phase = "SNAP" => (robot.pwmLeft = 0 /\ robot.pwmRight = 0)
         /\ obs.shove0.phase = "PULL" => robot.pwmLeft + robot.pwmRight < 0

C29_Witness ==
  /\ firmware = "territory"
  /\ robot.state = "SHOVE"
  /\ obs.startState = "SHOVE"
  /\ obs.shove0.phase = "PUSH"
  /\ fw.shove.phase = "PUSH"
  /\ robot.pwmLeft + robot.pwmRight = 2 * V_PUSH
  /\ fw.shove.cyclesDone > 0

(* C30: territory firmware - LINE_AVOID runs its choreography in order and *)
(* terminates.  obs.line0 holds stateTimer and fw.returnState at the start *)
(* of the tick.  A tick that ends in LINE_AVOID commands, by the state's   *)
(* age t, stop (t < 0.02 s), straight reverse (t < 0.37 s), a turn in      *)
(* place (t < 0.87 s) or stop (t < 1.57 s), never forward; if it started   *)
(* in LINE_AVOID the timer has advanced by dt and fw.returnState is        *)
(* unchanged, whatever the line sensor says.  A tick that starts in        *)
(* LINE_AVOID and ends elsewhere is the first with t >= 1.57 s and ends in *)
(* SHOVE or BLOCK only if that is fw.returnState and frontCm or targetCm   *)
(* is below D_DETECT, and in PATROL otherwise.  fw.returnState is never    *)
(* LINE_AVOID.                                                             *)
LineAvoidCommand(t) ==
  IF t < 12 THEN robot.pwmLeft = 0 /\ robot.pwmRight = 0
  ELSE IF t < 222 THEN robot.pwmLeft = -4500 /\ robot.pwmRight = -4500
  ELSE IF t < 522 THEN robot.pwmLeft = -robot.pwmRight /\ robot.pwmRight \in {-3500, 3500}
  ELSE robot.pwmLeft = 0 /\ robot.pwmRight = 0

LineAvoidStillNear == scan.frontCm < D_DETECT \/ scan.targetCm < D_DETECT

C30_LineAvoidChoreography ==
  firmware = "territory" =>
    /\ fw.returnState # "LINE_AVOID"
    /\ robot.state = "LINE_AVOID" =>
         /\ robot.stateTimer < 942
         /\ LineAvoidCommand(robot.stateTimer)
         /\ obs.startState = "LINE_AVOID" =>
              /\ robot.stateTimer = obs.line0.t + dt
              /\ fw.returnState = obs.line0.ret
    /\ (obs.startState = "LINE_AVOID" /\ robot.state # "LINE_AVOID") =>
         /\ obs.line0.t < 942
         /\ obs.line0.t + dt >= 942
         /\ fw.returnState = obs.line0.ret
         /\ IF LineAvoidStillNear /\ fw.returnState \in {"SHOVE", "BLOCK"}
            THEN robot.state = fw.returnState
            ELSE robot.state = "PATROL"

C30_Witness ==
  /\ firmware = "territory"
  /\ obs.startState = "LINE_AVOID"
  /\ robot.state = "LINE_AVOID"
  /\ obs.line
  /\ fw.returnState = "SHOVE"
  /\ robot.stateTimer >= 522

(***************************************************************************)
(* C31: full scans of the territory firmware are neither pre-empted nor    *)
(* lost.  A scan starts exactly on a tick that finds a request and no scan *)
(* running, and it starts at index 0; while a scan runs its index stays or *)
(* moves up by one, and it moves only after two pings accepted at that     *)
(* index; a request found by a tick of a running scan is still there at    *)
(* the end of the tick, so the next scan starts on the tick after the one  *)
(* that completes it; the scan completes on the tick that finds index 13,  *)
(* and fullHist gets one entry on that tick and on no other.  obs.scan0 is *)
(* the scan as the tick found it, obs.idxPings the pings the firmware got  *)
(* accepted since the index last changed.                                  *)
(***************************************************************************)
C31_ScansNeitherPreemptedNorLost ==
  (firmware = "territory" /\ obs.scan0 # NoFw) =>
    LET s0 == obs.scan0
        running == s0.mode = "full"
    IN  /\ scan.idx \in 0 .. 13
        /\ obs.scanStarted <=> (s0.requestedFull /\ ~running)
        /\ obs.scanStarted => (scan.mode = "full" /\ scan.idx = 0)
        /\ running =>
             /\ scan.idx \in {s0.idx, s0.idx + 1}
             /\ scan.idx = s0.idx + 1 => obs.idxPings = 2
             /\ scan.idx = s0.idx => obs.idxPings \in {0, 1}
             /\ s0.requestedFull => scan.requestedFull
             /\ obs.classified <=> s0.idx = 13
             /\ scan.mode = (IF s0.idx = 13 THEN "idle" ELSE "full")
        /\ (~running /\ ~obs.scanStarted) =>
             (scan.mode = s0.mode /\ scan.idx = s0.idx /\ ~obs.classified)
        /\ IF obs.classified
           THEN /\ scan.fullHistIdx = (s0.fullHistIdx + 1) % 3
                /\ \A k \in 1 .. 3 :
                     k # s0.fullHistIdx + 1 => scan.fullHist[k] = s0.fullHist[k]
           ELSE scan.fullHist = s0.fullHist /\ scan.fullHistIdx = s0.fullHistIdx

\* A scan that starts on the tick after a scan completed, on a request made
\* while that scan was under way (the robot is in SHOVE, where only enter()
\* makes requests).
C31_Witness ==
  /\ firmware = "territory"
  /\ obs.scan0 # NoFw
  /\ obs.scanStarted
  /\ obs.scan0.mode = "idle"
  /\ obs.scan0.idx = 13
  /\ obs.startState = "SHOVE"
  /\ robot.state = "SHOVE"

(***************************************************************************)
(* C32: in the probing firmware, a tick that finds the suspect window open *)
(* and ends with it closed, with the target still near and no motion       *)
(* detected (no aggression entered), leaves threat.cooldown armed to       *)
(* COOLDOWN_DUR and no probe under way.  obs.timers0 holds the             *)
(* classifier's timers as the tick found them.                             *)
(***************************************************************************)
C32_SuspectExpiryArmsCooldown ==
  (/\ firmware = "probing"
   /\ obs.timers0 # NoFw
   /\ obs.timers0.suspect > 0
   /\ threat.suspect = 0
   /\ obs.near
   /\ ~obs.enterAggr) =>
    (threat.cooldown = COOLDOWN_DUR_PROBE /\ threat.phase = "idle")

(***************************************************************************)
(* C33: _ringStats of the probing firmware returns as absDerivMean the     *)
(* mean absolute difference between chronologically consecutive finite     *)
(* samples of the window, also after the buffer has wrapped around.  The   *)
(* window in the order in which _pushThreatSample wrote it starts at       *)
(* ring[ringIdx] once the buffer is full; absDerivMean is absDerivSum over *)
(* finiteN - 1, and finiteN does not depend on the order.                  *)
(***************************************************************************)
ringChronological(th) ==
  LET n == th.ringCount
      first == IF n < RING_N_PROBE THEN 0 ELSE th.ringIdx
  IN  [k \in 1 .. n |-> th.ring[((first + k - 1) % RING_N_PROBE) + 1]]

chronologicalAbsDerivSum(th) ==
  ringStatsLoop(ringChronological(th), 0, th.ringCount,
                [finiteN |-> 0, infN |-> 0, min |-> INF, max |-> 0, sum |-> 0,
                 lastFinite |-> NullDist, absDerivSum |-> 0]).absDerivSum

C33_AbsDerivMeanChronological ==
  (firmware = "probing" /\ threat.ringCount > 0) =>
    ringStats(threat).absDerivSum = chronologicalAbsDerivSum(threat)

(***************************************************************************)
(* C34: the ring-buffer classifier issues a legs verdict or a wall verdict *)
(* only on a window that holds the samples of one full oscillation sweep,  *)
(* RING_N = 14 samples.  obs.verdict is the verdict of the tick and        *)
(* obs.windowN the number of samples _scanStats found in the window.       *)
(***************************************************************************)
C34_VerdictOnFullSweep ==
  (firmware = "ring" /\ obs.verdict \in {"legs", "wall"}) =>
    obs.windowN >= RING_N_RING

----------------------------------------------------------------------------
(* The ring-buffer firmware under frames of varying length: the loop's dt  *)
(* is the time since the previous animation frame times the speed factor,  *)
(* so it changes from tick to tick.  1/60 s, 0.05 s and 1 s here.          *)

MaxTicksSample == 8
DTsSample == {10, 30, 600}

InitSample ==
  /\ firmware = "ring"
  /\ dt = 10
  /\ world \in WorldsThreat
  /\ ticks = 0
  /\ events = 0
  /\ rng = 1
  /\ robot = RobotThreat0
  /\ fw = NoFw
  /\ scan = NoFw
  /\ threat = ThreatRing0
  /\ servo = Servo0
  /\ ultrasonic = Ultrasonic0
  /\ obs = Obs0

TickSample ==
  /\ ticks < MaxTicksSample
  /\ \E d \in DTsSample, w \in WorldsThreat :
       /\ WorldStep(w, FALSE)
       /\ dt' = d
       /\ Unpack(FrameRing(Pack, d, w))
  /\ ticks' = ticks + 1
  /\ UNCHANGED firmware

NextSample == TickSample

SpecSample == InitSample /\ [][NextSample]_vars

(***************************************************************************)
(* C35: the ring buffer of the ring-buffer firmware is filled at sensor    *)
(* rate: any two consecutive pushes are separated by at least SAMPLE_DT of *)
(* accumulated dt, whatever the tick sizes.  obs.pushed says that the tick *)
(* pushed a sample, obs.pushGap is the dt accumulated since the previous   *)
(* push, this tick's included (capped at SAMPLE_DT; -1 if there was none). *)
(***************************************************************************)
C35_PushesAtSensorRate ==
  (firmware = "ring" /\ obs.pushed /\ obs.pushGap >= 0) =>
    obs.pushGap >= SAMPLE_DT

====
